---- MODULE Spec2Model ----
(***************************************************************************)
(* Ledger replay engine of OpenSimperfi (Dashboard page): the ledger and   *)
(* trade tables written by the transaction forms, and the derivations      *)
(* calculateHoldings, calculateRealizedPnL and calculatePortfolioHistory   *)
(* computed from them.                                                     *)
(*                                                                         *)
(* Numbers.  The source computes in JavaScript doubles.  Here amounts and  *)
(* prices are integers and every derived value (cost basis, average        *)
(* price) is an exact rational <<n, d>> with d > 0 in lowest terms, so     *)
(* the arithmetic is the real-number arithmetic the doubles approximate.   *)
(* Amounts are counted in quanta of half the dust threshold: the source's  *)
(* 0.00000001 is DUST = 2 quanta, so an amount of 1 is below the           *)
(* threshold and an amount of 2 is exactly on it.  The fold is             *)
(* homogeneous in the amount, so the change of unit changes no decision.   *)
(***************************************************************************)
EXTENDS Integers, Sequences, FiniteSets, TLC

VARIABLES
    ledger,        \* db.ledger rows in primary-key order (db.ledger.toArray())
    trades,        \* db.trades rows in primary-key order (db.trades.toArray())
    nextTradeId,   \* auto-increment key of db.trades
    nextEntryId,   \* auto-increment key of db.ledger
    customPrices,      \* settings.customPrices: ticker -> manual override, if any
    socketPrices,      \* useLivePrices: the prices state, ticker -> last price, if any
    historicalPrices,  \* the result of fetchHistoricalPrices: ticker -> (date -> close), if any
    tzShift,           \* the side of UTC the local timezone is on: -1 behind, 0 UTC, 1 ahead
    portfolioHistoryData,  \* Dashboard state: the history series on display
    historyDeps,       \* the ledger, trades and prices the history effect last ran with
    historyRuns,       \* the calculateHistory calls awaiting their price fetch, with their inputs
    historyStarted,    \* how many times the history effect has started a computation
    historyShown,      \* the computation whose result setPortfolioHistoryData stored last
    wsStreams,         \* useLivePrices: the symbols the open socket streams, {} without a socket
    liveDeps,          \* the assets and overrides the live prices effect last ran with
    snapshotsTable,    \* db.snapshots rows: [id, date]
    nextSnapshotId,    \* auto-increment key of db.snapshots
    clockDay,          \* the UTC day of the wall clock (getTodayKey)
    ensureCalls,       \* the ensureDailySnapshot calls: where each is, its today and its toRemove
    snapshotsAdded,    \* history variable: every row ever added to db.snapshots
    nowMs,             \* Date.now(): the instant of the wall clock
    historicalPriceCache,  \* the module's Map: cache key -> [data, timestamp]
    fetchPending,      \* the klines requests awaiting their response
    nextFetchId,       \* numbers the fetchHistoricalPrices calls
    klineRequests,     \* log: every klines request issued, with the age of the symbol's newest cache entry
    cacheHits,         \* log: every call answered from the cache, with the age of the entry served
    queriesLoaded,     \* Dashboard: the live queries that have delivered their first result
    snapshot,          \* Dashboard state: the published snapshot, if any
    lastStablePricesRef,  \* Dashboard ref: the prices of the last published snapshot
    snapshotDeps,      \* the readiness, holdings and prices the snapshot effect last ran with
    transitions,       \* the transition callbacks not yet run, with their cancelled flag
    callbackLog,       \* log: for every callback run, whether it was cancelled and whether it published
    databaseList,      \* localStorage: the managed-database list (DB_LIST_KEY), parsed
    storedCurrentDatabaseId,  \* localStorage: the current database id (CURRENT_DB_KEY), "" when absent
    lastCall           \* log: the last managed-database call: its error if it threw, the current id
                       \* before it and, for a createManagedDatabase call, the list before it

dbVars == <<ledger, trades, nextTradeId, nextEntryId>>
historyVars == <<portfolioHistoryData, historyDeps, historyRuns, historyStarted, historyShown>>
socketVars == <<wsStreams, liveDeps>>
snapshotVars == <<snapshotsTable, nextSnapshotId, clockDay, ensureCalls, snapshotsAdded>>
cacheVars == <<nowMs, historicalPriceCache, fetchPending, nextFetchId, klineRequests, cacheHits>>
dashVars == <<queriesLoaded, snapshot, lastStablePricesRef, snapshotDeps, transitions, callbackLog>>
managedVars == <<databaseList, storedCurrentDatabaseId, lastCall>>
serviceVars == <<snapshotVars, cacheVars, dashVars, managedVars>>
pageVars == <<customPrices, socketPrices, historicalPrices, tzShift, historyVars, socketVars>>
nonDbVars == <<pageVars, serviceVars>>
vars == <<dbVars, nonDbVars>>

----------------------------------------------------------------------------
(* Bounds of the model *)

MaxTrades == 3

\* the history effect starts at most this many computations
MaxRuns == 3

\* the wall clock runs from day 1 to this day
MaxDay == 6

\* Date.now() runs from instant 0 to this instant
MaxNow == 3

\* at most this many fetchHistoricalPrices calls are made
MaxFetches == 2

(* Program constants *)

DUST == 2

----------------------------------------------------------------------------
(* Optional numbers: <<>> is undefined, <<p>> is the number p. *)

Undefined == <<>>
Some(p) == <<p>>

\* x || 0 on an optional number
OrZero(x) == IF x = Undefined THEN 0 ELSE x[1]

\* JavaScript truthiness of an optional number: undefined and 0 are falsy
Truthy(x) == x # Undefined /\ x[1] # 0

----------------------------------------------------------------------------
(* Exact rationals *)

Abs(n) == IF n < 0 THEN -n ELSE n

RECURSIVE GCD(_, _)
GCD(a, b) == IF b = 0 THEN a ELSE GCD(b, a % b)

Rat(n, d) ==
    LET s == IF d < 0 THEN -1 ELSE 1
        g == GCD(Abs(n), Abs(d))
    IN  IF n = 0 THEN <<0, 1>> ELSE <<(s * n) \div g, (s * d) \div g>>

RInt(n) == <<n, 1>>
RAdd(x, y) == Rat(x[1] * y[2] + y[1] * x[2], x[2] * y[2])
RSub(x, y) == Rat(x[1] * y[2] - y[1] * x[2], x[2] * y[2])
RMul(x, y) == Rat(x[1] * y[1], x[2] * y[2])
RDivInt(x, n) == Rat(x[1], x[2] * n)
RLt(x, y) == x[1] * y[2] < y[1] * x[2]
RLe(x, y) == x[1] * y[2] <= y[1] * x[2]

----------------------------------------------------------------------------
(* Data *)

Tickers == {"BTC", "ETH", "USDC", "USDT"}

\* ascending order of String.prototype.localeCompare on the tickers used
TickerOrder == <<"BTC", "ETH", "USDC", "USDT">>

COMMON_STABLECOINS ==
    {"USDT", "USDC", "BUSD", "DAI", "TUSD", "USDD", "USDP", "GUSD", "FRAX",
     "LUSD", "USDN", "UST", "FDUSD", "PYUSD"}

\* tickers are stored upper-case, so toUpperCase() changes nothing here
isStablecoin(ticker) == ticker \in COMMON_STABLECOINS

TradeTypes == {"trade", "deposit", "withdraw", "transfer", "buy", "sell", "gain", "loss"}

Today == 30


----------------------------------------------------------------------------
(* calculateHoldings *)

\* tradeTypeMap.get(tradeId): the type of the trade with that id, or "undefined"
TradeTypeOf(trs, tradeId) ==
    IF \E i \in 1..Len(trs) : trs[i].id = tradeId
    THEN LET i == CHOOSE i \in 1..Len(trs) : trs[i].id = tradeId IN trs[i].type
    ELSE "undefined"

\* mutant of FilterTransfers: the transfer filter is left out
FilterTransfersKeepsAll(entries, transferTradeIds) == entries

\* transferTradeIds is Undefined or Some(set of trade ids)
FilterTransfers(entries, transferTradeIds) ==
    IF transferTradeIds = Undefined
    THEN entries
    ELSE SelectSeq(entries, LAMBDA e : e.tradeId \notin transferTradeIds[1])

\* grouped[ticker]: the entries of one ticker, in array order
GroupOf(entries, ticker) == SelectSeq(entries, LAMBDA e : e.assetTicker = ticker)

\* history.sort((a, b) => a.id - b.id): stable insertion sort by id
RECURSIVE InsertById(_, _)
InsertById(sorted, e) ==
    IF sorted = <<>> THEN <<e>>
    ELSE IF sorted[Len(sorted)].id <= e.id THEN Append(sorted, e)
    ELSE Append(InsertById(SubSeq(sorted, 1, Len(sorted) - 1), e), sorted[Len(sorted)])

\* the mutation of SortById that leaves the array in the order it came in
SortByIdKeepsOrder(s) == s

RECURSIVE SortById(_)
SortById(s) ==
    IF s = <<>> THEN <<>>
    ELSE InsertById(SortById(SubSeq(s, 1, Len(s) - 1)), s[Len(s)])

FoldInit == [totalQty |-> 0, totalCost |-> RInt(0), lastBuy |-> 0]

\* mutant of FoldEntry: a sale removes its units at the last buy price
\* instead of the running average
FoldEntrySellsAtLastBuy(st, entry, tradeType) ==
    LET qty == entry.amount IN
    IF qty > 0
    THEN IF tradeType = "gain"
         THEN [st EXCEPT !.totalQty = st.totalQty + qty]
         ELSE LET price == OrZero(entry.usdPriceAtTime)
              IN  [totalQty  |-> st.totalQty + qty,
                   totalCost |-> RAdd(st.totalCost, RInt(qty * price)),
                   lastBuy   |-> IF price > 0 THEN price ELSE st.lastBuy]
    ELSE [st EXCEPT !.totalCost = RSub(st.totalCost, RInt(Abs(qty) * st.lastBuy)),
                    !.totalQty = st.totalQty - Abs(qty)]

\* mutant of FoldEntry: a gain is folded like any other positive entry
FoldEntryGainAtMarket(st, entry, tradeType) ==
    LET qty == entry.amount IN
    IF qty > 0
    THEN LET price == OrZero(entry.usdPriceAtTime)
         IN  [totalQty  |-> st.totalQty + qty,
              totalCost |-> RAdd(st.totalCost, RInt(qty * price)),
              lastBuy   |-> IF price > 0 THEN price ELSE st.lastBuy]
    ELSE LET avgPrice == IF st.totalQty > 0
                         THEN RDivInt(st.totalCost, st.totalQty)
                         ELSE RInt(0)
         IN  [st EXCEPT !.totalCost = RSub(st.totalCost, RMul(RInt(Abs(qty)), avgPrice)),
                        !.totalQty = st.totalQty - Abs(qty)]

\* the body of history.forEach: one entry folded into the running state
FoldEntry(st, entry, tradeType) ==
    LET qty == entry.amount IN
    IF qty > 0
    THEN IF tradeType = "gain"
         THEN [st EXCEPT !.totalQty = st.totalQty + qty]
         ELSE LET price == OrZero(entry.usdPriceAtTime)
                  cost == qty * price
              IN  [totalQty  |-> st.totalQty + qty,
                   totalCost |-> RAdd(st.totalCost, RInt(cost)),
                   lastBuy   |-> IF price > 0 THEN price ELSE st.lastBuy]
    ELSE LET absQty == Abs(qty)
             avgPrice == IF st.totalQty > 0
                         THEN RDivInt(st.totalCost, st.totalQty)
                         ELSE RInt(0)
             costRemoved == RMul(RInt(absQty), avgPrice)
         IN  [st EXCEPT !.totalCost = RSub(st.totalCost, costRemoved),
                        !.totalQty = st.totalQty - absQty]

RECURSIVE FoldHistory(_, _)
FoldHistory(history, trs) ==
    IF history = <<>> THEN FoldInit
    ELSE FoldEntry(FoldHistory(SubSeq(history, 1, Len(history) - 1), trs),
                   history[Len(history)],
                   TradeTypeOf(trs, history[Len(history)].tradeId))

\* mutant of SnapDust: a quantity exactly on the threshold is snapped too
SnapDustInclusive(st) ==
    IF Abs(st.totalQty) <= DUST
    THEN [st EXCEPT !.totalQty = 0, !.totalCost = RInt(0)]
    ELSE st

\* "Handle floating point errors near zero"
SnapDust(st) ==
    IF Abs(st.totalQty) < DUST
    THEN [st EXCEPT !.totalQty = 0, !.totalCost = RInt(0)]
    ELSE st

\* the running state of one ticker after history.forEach
RunningState(entries, trs, transferTradeIds, ticker) ==
    FoldHistory(SortById(GroupOf(FilterTransfers(entries, transferTradeIds), ticker)), trs)

\* the running state of one ticker after the fold and the dust snap
FinalState(entries, trs, transferTradeIds, ticker) ==
    SnapDust(RunningState(entries, trs, transferTradeIds, ticker))

\* the record pushed to results for a ticker whose final quantity is positive
HoldingOf(ticker, st) ==
    [ticker         |-> ticker,
     amount         |-> st.totalQty,
     avgBuyPrice    |-> IF st.totalQty > 0 THEN RDivInt(st.totalCost, st.totalQty) ELSE RInt(0),
     lastBuyPrice   |-> st.lastBuy,
     totalCostBasis |-> st.totalCost]

\* Object.entries(grouped).forEach(...) followed by
\* results.sort((a, b) => a.ticker.localeCompare(b.ticker)): one record per
\* ticker whose final quantity is positive, in ascending ticker order (a
\* ticker with no entry has no group; its fold is FoldInit, quantity 0)
RECURSIVE HoldingsUpTo(_, _, _, _)
HoldingsUpTo(entries, trs, transferTradeIds, k) ==
    IF k = 0 THEN <<>>
    ELSE LET rest == HoldingsUpTo(entries, trs, transferTradeIds, k - 1)
             st == FinalState(entries, trs, transferTradeIds, TickerOrder[k])
         IN  IF st.totalQty > 0
             THEN Append(rest, HoldingOf(TickerOrder[k], st))
             ELSE rest

calculateHoldings(entries, trs, transferTradeIds) ==
    HoldingsUpTo(entries, trs, transferTradeIds, Len(TickerOrder))

\* Dashboard: the ids of the trades of type "transfer"
TransferTradeIds(trs) ==
    Some({trs[i].id : i \in {j \in 1..Len(trs) : trs[j].type = "transfer"}})

\* Dashboard: holdings = calculateHoldings(ledger, trades, transferTradeIds)
holdings == calculateHoldings(ledger, trades, TransferTradeIds(trades))

----------------------------------------------------------------------------
(* calculateRealizedPnL *)

\* x || 1 on an optional number
OrOne(x) == IF Truthy(x) THEN x[1] ELSE 1

\* Array.prototype.find: the index of the first element with the sign asked
\* for (sign -1: amount < 0, sign 1: amount > 0), 0 when there is none
FindBySign(entries, sign) ==
    LET hits == {i \in 1..Len(entries) : IF sign < 0 THEN entries[i].amount < 0
                                                     ELSE entries[i].amount > 0}
    IN  IF hits = {} THEN 0 ELSE CHOOSE i \in hits : \A j \in hits : i <= j

\* mutant of SellTrades: the type filter is left out
SellTradesKeepsAll(trs) == trs

\* trades.filter((t) => t.type === "sell")
SellTrades(trs) == SelectSeq(trs, LAMBDA t : t.type = "sell")

\* mutant of SellPnL: a sold leg without a price is costed at 0 instead of skipped
SellPnLCostsMissingAtZero(entries, trade) ==
    LET tradeEntries == SelectSeq(entries, LAMBDA e : e.tradeId = trade.id)
        s == FindBySign(tradeEntries, -1)
        r == FindBySign(tradeEntries, 1)
    IN  IF s # 0 /\ r # 0
        THEN tradeEntries[r].amount * OrOne(tradeEntries[r].usdPriceAtTime)
                 - Abs(tradeEntries[s].amount) * OrZero(tradeEntries[s].usdPriceAtTime)
        ELSE 0

\* the body of sellTrades.forEach: what one sell trade adds to totalRealizedPnL
SellPnL(entries, trade) ==
    LET tradeEntries == SelectSeq(entries, LAMBDA e : e.tradeId = trade.id)
        s == FindBySign(tradeEntries, -1)
        r == FindBySign(tradeEntries, 1)
    IN  IF s # 0 /\ r # 0 /\ Truthy(tradeEntries[s].usdPriceAtTime)
        THEN LET soldAmount == Abs(tradeEntries[s].amount)
                 costBasis == soldAmount * tradeEntries[s].usdPriceAtTime[1]
                 proceeds == tradeEntries[r].amount * OrOne(tradeEntries[r].usdPriceAtTime)
             IN  proceeds - costBasis
        ELSE 0

RECURSIVE SumSellPnL(_, _)
SumSellPnL(entries, sells) ==
    IF sells = <<>> THEN 0
    ELSE SumSellPnL(entries, SubSeq(sells, 1, Len(sells) - 1))
             + SellPnL(entries, sells[Len(sells)])

calculateRealizedPnL(entries, trs) ==
    IF Len(entries) = 0 \/ Len(trs) = 0 THEN 0
    ELSE SumSellPnL(entries, SellTrades(trs))

\* Dashboard: realizedPnL = calculateRealizedPnL(ledger, trades)
realizedPnL == calculateRealizedPnL(ledger, trades)

----------------------------------------------------------------------------
(* useLivePrices and calculatePortfolioHistory *)

\* mutant of MergeLivePrices: the socket price wins over the manual override
MergeLivePricesSocketFirst(prices, overrides) ==
    [t \in Tickers |-> IF prices[t] # Undefined THEN prices[t] ELSE overrides[t]]

\* useLivePrices returns { ...prices, ...normalizedOverrides }
MergeLivePrices(prices, overrides) ==
    [t \in Tickers |-> IF overrides[t] # Undefined THEN overrides[t] ELSE prices[t]]

\* Dashboard: prices = useLivePrices(assetList, customPrices)
livePrices == MergeLivePrices(socketPrices, customPrices)

\* currentDate.toISOString().split('T')[0] of the local midnight of a day:
\* the UTC date, which is the day before in a timezone ahead of UTC.  Dates
\* are day numbers, day 0 being thirtyDaysAgo.
ISODate(day) == IF tzShift > 0 THEN day - 1 ELSE day

\* the key fetchHistoricalPrices files a daily candle under: the UTC date of
\* (openTime - getTimezoneOffset minutes), openTime being the UTC midnight of
\* the candle's day; the day before in a timezone behind UTC.
KlineDate(utcDay) == IF tzShift < 0 THEN utcDay - 1 ELSE utcDay

\* klines.forEach: the closes above zero of the returned candles, by key
ParseKlines(klines) ==
    LET kept == {k \in DOMAIN klines : klines[k] > 0}
    IN  [d \in {KlineDate(k) : k \in kept} |->
            klines[CHOOSE k \in kept : KlineDate(k) = d]]

\* results of fetchHistoricalPrices: the parsed candles of every symbol
\* whose request succeeded
ParseResults(responses) ==
    [t \in Tickers |->
        IF responses[t] = Undefined THEN Undefined ELSE Some(ParseKlines(responses[t][1]))]

\* allDates: thirtyDaysAgo + i for i = 0..30
allDates == [i \in 1..(Today + 1) |-> i - 1]

\* the mutation of EntriesUpToDate that keeps the entries of later trades
EntriesUpToDateAnyDate(entries, trs, currentDate) ==
    SelectSeq(entries, LAMBDA e : \E i \in 1..Len(trs) : trs[i].id = e.tradeId)

\* the entries whose parent trade exists and is dated on or before the day
EntriesUpToDate(entries, trs, currentDate) ==
    SelectSeq(entries, LAMBDA e :
        \E i \in 1..Len(trs) :
            /\ trs[i].id = e.tradeId
            /\ \A j \in 1..(i - 1) : trs[j].id # e.tradeId
            /\ trs[i].date <= currentDate)

\* assetPrices && assetPrices[dateStr]: the close filed under the day's date
ExactClose(ticker, dateStr, hist) ==
    IF hist[ticker] # Undefined /\ dateStr \in DOMAIN hist[ticker][1]
    THEN hist[ticker][1][dateStr]
    ELSE 0

\* mutant of ForwardFill: the latest close there is, later dates included
ForwardFillLatestOverall(ticker, dateStr, hist) ==
    LET assetPrices == hist[ticker][1]
        availableDates ==
            IF hist[ticker] # Undefined
            THEN {k \in DOMAIN assetPrices : assetPrices[k] > 0}
            ELSE {}
    IN  IF availableDates = {} THEN 0
        ELSE assetPrices[CHOOSE k \in availableDates : \A j \in availableDates : j <= k]

\* the forward fill: the close above zero filed under the latest date on or
\* before dateStr, 0 when there is none
ForwardFill(ticker, dateStr, hist) ==
    LET assetPrices == hist[ticker][1]
        availableDates ==
            IF hist[ticker] # Undefined
            THEN {k \in DOMAIN assetPrices : assetPrices[k] > 0 /\ k <= dateStr}
            ELSE {}
    IN  IF availableDates = {} THEN 0
        ELSE assetPrices[CHOOSE k \in availableDates : \A j \in availableDates : j <= k]

\* the ledger fallback: the price of the last entry up to the day that adds
\* the ticker and carries a price, 0 when there is none
LedgerPrice(ticker, upTo) ==
    LET relevantEntries ==
            SelectSeq(upTo, LAMBDA e :
                /\ e.assetTicker = ticker
                /\ e.amount > 0
                /\ Truthy(e.usdPriceAtTime))
    IN  IF relevantEntries # <<>>
        THEN OrZero(relevantEntries[Len(relevantEntries)].usdPriceAtTime)
        ELSE 0

\* the else branch of isToday: exact close, forward fill, ledger fallback
PastPrice(ticker, dateStr, upTo, hist) ==
    IF ExactClose(ticker, dateStr, hist) # 0
    THEN ExactClose(ticker, dateStr, hist)
    ELSE IF ForwardFill(ticker, dateStr, hist) # 0
         THEN ForwardFill(ticker, dateStr, hist)
         ELSE LedgerPrice(ticker, upTo)

\* the price calculatePortfolioHistory uses for one holding on one day
HistoryPrice(ticker, currentDate, upTo, live, hist) ==
    IF ISODate(currentDate) = ISODate(Today)
    THEN OrZero(live[ticker])
    ELSE PastPrice(ticker, ISODate(currentDate), upTo, hist)

\* totalValue of one day: the sum of amount * price over the day's holdings
RECURSIVE SumValue(_, _, _, _, _)
SumValue(hs, currentDate, upTo, live, hist) ==
    IF hs = <<>> THEN 0
    ELSE SumValue(SubSeq(hs, 1, Len(hs) - 1), currentDate, upTo, live, hist)
             + hs[Len(hs)].amount
                   * HistoryPrice(hs[Len(hs)].ticker, currentDate, upTo, live, hist)

\* the body of allDates.forEach: the point pushed for one day
HistoryPoint(entries, trs, transferTradeIds, live, hist, currentDate) ==
    LET upTo == EntriesUpToDate(entries, trs, currentDate)
        holdingsAtDate == calculateHoldings(upTo, trs, transferTradeIds)
    IN  [date |-> ISODate(currentDate),
         value |-> SumValue(holdingsAtDate, currentDate, upTo, live, hist)]

\* mutant of calculatePortfolioHistory: the early return for an empty ledger is left out
calculatePortfolioHistoryNoEarlyReturn(entries, trs, transferTradeIds, live, hist) ==
    [i \in 1..Len(allDates) |->
        HistoryPoint(entries, trs, transferTradeIds, live, hist, allDates[i])]

calculatePortfolioHistory(entries, trs, transferTradeIds, live, hist) ==
    IF Len(entries) = 0 THEN <<>>
    ELSE [i \in 1..Len(allDates) |->
             HistoryPoint(entries, trs, transferTradeIds, live, hist, allDates[i])]

\* Dashboard: the series computed from the tables, the live prices and the fetched closes
portfolioHistory ==
    calculatePortfolioHistory(ledger, trades, TransferTradeIds(trades), livePrices, historicalPrices)

----------------------------------------------------------------------------
(* The transaction forms: each submit is one Dexie transaction that adds   *)
(* the parent trade and its ledger entries.                                *)

\* db.trades.add({type, date, ...}): the trade table with the new row
WithTrade(type, date) ==
    Append(trades, [id |-> nextTradeId, type |-> type, date |-> date])

\* a ledger row to add, on the account picked in the form
LegOn(accountId, ticker, amount, price) ==
    [accountId |-> accountId, assetTicker |-> ticker, amount |-> amount,
     usdPriceAtTime |-> price]

\* a ledger row on the first account (the account plays no part in the
\* holdings, the realized PnL or the history)
Leg(ticker, amount, price) == LegOn(1, ticker, amount, price)

\* db.ledger.add({tradeId, ...}) for each leg in order: the ledger table with the new rows
WithLegs(legs) ==
    ledger \o
        [k \in 1..Len(legs) |->
            [id             |-> nextEntryId + k - 1,
             tradeId        |-> nextTradeId,
             accountId      |-> legs[k].accountId,
             assetTicker    |-> legs[k].assetTicker,
             amount         |-> legs[k].amount,
             usdPriceAtTime |-> legs[k].usdPriceAtTime]]

\* DepositFormComponent.onSubmit: one positive entry carrying the typed price
SubmitDeposit(days, tickers, amounts, prices) ==
    \E d \in days, t \in tickers, a \in amounts, p \in prices :
        /\ Len(trades) < MaxTrades
        /\ trades' = WithTrade("deposit", d)
        /\ ledger' = WithLegs(<<Leg(t, a, Some(p))>>)
        /\ nextTradeId' = nextTradeId + 1
        /\ nextEntryId' = nextEntryId + 1
        /\ UNCHANGED nonDbVars

\* TradeForm.onSubmit, type "withdraw": one negative entry, price optional
SubmitWithdraw(days, tickers, amounts, prices) ==
    \E d \in days, t \in tickers, a \in amounts, p \in prices :
        /\ Len(trades) < MaxTrades
        /\ trades' = WithTrade("withdraw", d)
        /\ ledger' = WithLegs(<<Leg(t, -Abs(a), p)>>)
        /\ nextTradeId' = nextTradeId + 1
        /\ nextEntryId' = nextEntryId + 1
        /\ UNCHANGED nonDbVars

\* GainFormComponent.onSubmit: one positive entry, price optional
SubmitGain(days, tickers, amounts, prices) ==
    \E d \in days, t \in tickers, a \in amounts, p \in prices :
        /\ Len(trades) < MaxTrades
        /\ trades' = WithTrade("gain", d)
        /\ ledger' = WithLegs(<<Leg(t, a, p)>>)
        /\ nextTradeId' = nextTradeId + 1
        /\ nextEntryId' = nextEntryId + 1
        /\ UNCHANGED nonDbVars

\* TransferFormComponent.onSubmit: -amount on the source, +amount on the destination
SubmitTransfer(days, accountPairs, tickers, amounts) ==
    \E d \in days, accts \in accountPairs, t \in tickers, a \in amounts :
        /\ Len(trades) < MaxTrades
        /\ accts[1] # accts[2]
        /\ trades' = WithTrade("transfer", d)
        /\ ledger' = WithLegs(<<LegOn(accts[1], t, -a, Undefined),
                                LegOn(accts[2], t, a, Undefined)>>)
        /\ nextTradeId' = nextTradeId + 1
        /\ nextEntryId' = nextEntryId + 2
        /\ UNCHANGED nonDbVars

\* TradeFormComponent.onSubmit: -outAmount and +inAmount, each at its typed price
SubmitTrade(days, outTickers, inTickers, outAmts, inAmts, outPrices, inPrices) ==
    \E d \in days, ot \in outTickers, it \in inTickers, outAmount \in outAmts,
       inAmount \in inAmts, outPrice \in outPrices, inPrice \in inPrices :
        /\ Len(trades) < MaxTrades
        /\ trades' = WithTrade("trade", d)
        /\ ledger' = WithLegs(<<Leg(ot, -outAmount, Some(outPrice)),
                                Leg(it, inAmount, Some(inPrice))>>)
        /\ nextTradeId' = nextTradeId + 1
        /\ nextEntryId' = nextEntryId + 2
        /\ UNCHANGED nonDbVars

\* SellFormComponent.onSubmit: -sellAmt at the pair price, +receiveAmt at 1
\* when the received ticker is a stablecoin and without a price otherwise
SubmitSell(days, sellTickers, receiveTickers, sellAmts, receiveAmts, prices) ==
    \E d \in days, st \in sellTickers, rt \in receiveTickers,
       sellAmt \in sellAmts, receiveAmt \in receiveAmts, price \in prices :
        /\ Len(trades) < MaxTrades
        /\ trades' = WithTrade("sell", d)
        /\ ledger' = WithLegs(<<Leg(st, -sellAmt, Some(price)),
                                Leg(rt, receiveAmt,
                                    IF isStablecoin(rt) THEN Some(1) ELSE Undefined)>>)
        /\ nextTradeId' = nextTradeId + 1
        /\ nextEntryId' = nextEntryId + 2
        /\ UNCHANGED nonDbVars

\* BuyFormComponent.onSubmit: +buyAmt at the pair price, -payAmt at 1 when
\* the paying ticker is a stablecoin and without a price otherwise
SubmitBuy(days, buyTickers, payTickers, buyAmts, payAmts, prices) ==
    \E d \in days, bt \in buyTickers, pt \in payTickers,
       buyAmt \in buyAmts, payAmt \in payAmts, price \in prices :
        /\ Len(trades) < MaxTrades
        /\ trades' = WithTrade("buy", d)
        /\ ledger' = WithLegs(<<Leg(bt, buyAmt, Some(price)),
                                Leg(pt, -payAmt,
                                    IF isStablecoin(pt) THEN Some(1) ELSE Undefined)>>)
        /\ nextTradeId' = nextTradeId + 1
        /\ nextEntryId' = nextEntryId + 2
        /\ UNCHANGED nonDbVars

\* the largest id of a table's rows, 0 for an empty table
MaxId(rows) ==
    IF rows = <<>> THEN 0
    ELSE LET ids == {rows[i].id : i \in 1..Len(rows)}
         IN  CHOOSE m \in ids : \A n \in ids : n <= m

\* importDatabaseDump: the tables are cleared and the rows of the backup are
\* added with the ids they carry; the settings row, and with it the manual
\* prices, is the backup's.  Restores are modelled into a fresh database
\* only, which keeps the key generators bounded.
ImportDump(payloads) ==
    \E payload \in payloads :
        /\ nextTradeId = 1
        /\ trades' = payload.trades
        /\ ledger' = payload.ledger
        /\ nextTradeId' = MaxId(payload.trades) + 1
        /\ nextEntryId' = MaxId(payload.ledger) + 1
        /\ customPrices' = payload.customPrices
        /\ UNCHANGED <<socketPrices, historicalPrices, tzShift, historyVars, socketVars, serviceVars>>

\* mutant of handleDelete: the trade row is deleted and its entries are left
handleDeleteTradeOnly(ids) ==
    \E id \in ids :
        /\ \E i \in 1..Len(trades) : trades[i].id = id
        /\ trades' = SelectSeq(trades, LAMBDA t : t.id # id)
        /\ UNCHANGED <<ledger, nextTradeId, nextEntryId>>
        /\ UNCHANGED nonDbVars

\* TransactionsPage.handleDelete, confirmed: one transaction deletes the
\* trade and the ledger rows whose tradeId is the trade's id
handleDelete(ids) ==
    \E id \in ids :
        /\ \E i \in 1..Len(trades) : trades[i].id = id
        /\ trades' = SelectSeq(trades, LAMBDA t : t.id # id)
        /\ ledger' = SelectSeq(ledger, LAMBDA e : e.tradeId # id)
        /\ UNCHANGED <<nextTradeId, nextEntryId>>
        /\ UNCHANGED nonDbVars

----------------------------------------------------------------------------
(* Prices: the manual override dialog, the live socket, the klines fetch *)

\* assetList: the tickers of the current holdings
assetList == {holdings[i].ticker : i \in 1..Len(holdings)}

\* handlePriceDialogSave: a price above zero typed for a listed holding
handlePriceDialogSave(values) ==
    \E t \in assetList, parsed \in values :
        /\ parsed > 0
        /\ customPrices' = [customPrices EXCEPT ![t] = Some(parsed)]
        /\ UNCHANGED <<dbVars, socketPrices, historicalPrices, tzShift, historyVars, socketVars, serviceVars>>

\* handlePriceDialogClear: the override of a listed holding is deleted
handlePriceDialogClear ==
    \E t \in assetList :
        /\ customPrices[t] # Undefined
        /\ customPrices' = [customPrices EXCEPT ![t] = Undefined]
        /\ UNCHANGED <<dbVars, socketPrices, historicalPrices, tzShift, historyVars, socketVars, serviceVars>>

\* the useLivePrices effect: with some asset listed, USDT is priced at 1
UseLivePricesEffect ==
    /\ assetList # {}
    /\ socketPrices["USDT"] # Some(1)
    /\ socketPrices' = [socketPrices EXCEPT !["USDT"] = Some(1)]
    /\ UNCHANGED <<dbVars, customPrices, historicalPrices, tzShift, historyVars, socketVars, serviceVars>>

\* socket.onmessage once the effect has run for the listed assets and the
\* overrides as they are: a mini-ticker of a subscribed symbol (listed, not
\* USDT, not overridden) stores its close
OnSocketMessage(values) ==
    \E t \in assetList, price \in values :
        /\ t # "USDT"
        /\ customPrices[t] = Undefined
        /\ socketPrices[t] # Some(price)
        /\ socketPrices' = [socketPrices EXCEPT ![t] = Some(price)]
        /\ UNCHANGED <<dbVars, customPrices, historicalPrices, tzShift, historyVars, socketVars, serviceVars>>

\* fetchHistoricalPrices resolves: the candles Binance returned, per symbol
\* and UTC day (a symbol whose request failed has no entry), parsed
FetchHistoricalPrices(responses) ==
    \E r \in responses :
        /\ Len(ledger) # 0
        /\ ParseResults(r) # historicalPrices
        /\ historicalPrices' = ParseResults(r)
        /\ UNCHANGED <<dbVars, customPrices, socketPrices, tzShift, historyVars, socketVars, serviceVars>>

----------------------------------------------------------------------------
(* useLivePrices, effect by effect: the socket and its streams *)

\* the effect's dependencies as they are now: uniqueAssets, normalizedOverrides
CurrentLiveDeps == [assets |-> assetList, overrides |-> customPrices]

\* mutant of symbolsToSubscribe: overridden assets stay subscribed
symbolsToSubscribeAll(assets, overrides) ==
    {t \in assets : t # "USDT"}

\* symbolsToSubscribe: the assets that are neither USDT nor overridden
symbolsToSubscribe(assets, overrides) ==
    {t \in assets : t # "USDT" /\ overrides[t] = Undefined}

\* the effect body, run when the assets or the overrides changed: without
\* assets the socket is closed; otherwise USDT is set to 1, the old socket is
\* closed and a new one streams symbolsToSubscribe (none when that is empty)
LivePricesEffect ==
    /\ CurrentLiveDeps # liveDeps
    /\ liveDeps' = CurrentLiveDeps
    /\ IF assetList = {}
       THEN /\ wsStreams' = {}
            /\ UNCHANGED socketPrices
       ELSE /\ socketPrices' = [socketPrices EXCEPT !["USDT"] = Some(1)]
            /\ wsStreams' = symbolsToSubscribe(assetList, customPrices)
    /\ UNCHANGED <<dbVars, customPrices, historicalPrices, tzShift, historyVars, serviceVars>>

\* socket.onmessage of the open socket: the close of one of its streams
OnStreamMessage(values) ==
    \E t \in wsStreams, price \in values :
        /\ socketPrices[t] # Some(price)
        /\ socketPrices' = [socketPrices EXCEPT ![t] = Some(price)]
        /\ UNCHANGED <<dbVars, customPrices, historicalPrices, tzShift, historyVars, socketVars, serviceVars>>

----------------------------------------------------------------------------
(* The Dashboard history effect *)

\* the effect's dependencies as they are now
CurrentHistoryDeps == [ledger |-> ledger, trades |-> trades, prices |-> livePrices]

\* the effect body, run when ledger, trades or prices changed: it calls
\* calculateHistory with the current values and keeps no handle on the call.
\* With an empty ledger calculatePortfolioHistory returns [] without
\* fetching, and the series is stored before any other event.
HistoryEffect ==
    /\ CurrentHistoryDeps # historyDeps
    /\ historyStarted < MaxRuns
    /\ historyDeps' = CurrentHistoryDeps
    /\ historyStarted' = historyStarted + 1
    /\ IF Len(ledger) = 0
       THEN /\ portfolioHistoryData' = <<>>
            /\ historyShown' = historyStarted + 1
            /\ UNCHANGED historyRuns
       ELSE /\ historyRuns' = historyRuns \cup
                   {[run |-> historyStarted + 1, ledger |-> ledger,
                     trades |-> trades, prices |-> livePrices]}
            /\ UNCHANGED <<portfolioHistoryData, historyShown>>
    /\ UNCHANGED <<dbVars, customPrices, socketPrices, historicalPrices, tzShift, socketVars, serviceVars>>

\* the price fetch of one pending call resolves: the call computes its series
\* from the inputs it was started with and setPortfolioHistoryData stores it
HistoryResolves(responses) ==
    \E r \in historyRuns, response \in responses :
        /\ historicalPrices' = ParseResults(response)
        /\ portfolioHistoryData' =
               calculatePortfolioHistory(r.ledger, r.trades, TransferTradeIds(r.trades),
                                         r.prices, ParseResults(response))
        /\ historyShown' = r.run
        /\ historyRuns' = historyRuns \ {r}
        /\ UNCHANGED <<dbVars, customPrices, socketPrices, tzShift, historyDeps, historyStarted,
                       socketVars, serviceVars>>

\* an empty price map: no ticker has a value
NoPrices == [t \in Tickers |-> Undefined]

----------------------------------------------------------------------------
(* Daily snapshots (snapshot-service.ts).  ensureDailySnapshot is an async *)
(* function: each await is a point where another call, or the clock, can   *)
(* take a step.  db.snapshots is indexed by '++id, date': the date index   *)
(* is not unique.                                                          *)

SNAPSHOT_RETENTION == 5

\* the ensureDailySnapshot calls that can be in flight together: the App
\* setup effect runs twice at startup under React.StrictMode
Calls == {1, 2}

\* orderBy('date').reverse(): a row comes before another when its date is
\* later, or the dates are equal and its key is higher
SnapshotBefore(a, b) == a.date > b.date \/ (a.date = b.date /\ a.id > b.id)

\* snapshots.slice(SNAPSHOT_RETENTION) of the oldest-first listing: the
\* mutation of ToRemove that keeps the oldest rows
ToRemoveNewest(rows) ==
    {r \in rows : Cardinality({q \in rows : SnapshotBefore(r, q)}) >= SNAPSHOT_RETENTION}

\* snapshots.slice(SNAPSHOT_RETENTION) of the newest-first listing: the rows
\* with at least SNAPSHOT_RETENTION rows before them
ToRemove(rows) ==
    {r \in rows : Cardinality({q \in rows : SnapshotBefore(q, r)}) >= SNAPSHOT_RETENTION}

IdleCall == [pc |-> "idle", today |-> 0, toRemove |-> {}]

\* a call starts: getTodayKey() is read and the query for today's row issued
EnsureStart(c) ==
    /\ ensureCalls[c].pc = "idle"
    /\ ensureCalls' = [ensureCalls EXCEPT ![c] = [pc |-> "first", today |-> clockDay, toRemove |-> {}]]
    /\ UNCHANGED <<snapshotsTable, nextSnapshotId, clockDay, snapshotsAdded>>

\* where('date').equals(today).first() resolves: return when a row exists
EnsureFirst(c) ==
    /\ ensureCalls[c].pc = "first"
    /\ ensureCalls' =
           IF \E r \in snapshotsTable : r.date = ensureCalls[c].today
           THEN [ensureCalls EXCEPT ![c] = IdleCall]
           ELSE [ensureCalls EXCEPT ![c].pc = "add"]
    /\ UNCHANGED <<snapshotsTable, nextSnapshotId, clockDay, snapshotsAdded>>

\* exportDatabaseDump resolves and snapshots.add stores the row
EnsureAdd(c) ==
    /\ ensureCalls[c].pc = "add"
    /\ LET row == [id |-> nextSnapshotId, date |-> ensureCalls[c].today]
       IN  /\ snapshotsTable' = snapshotsTable \cup {row}
           /\ snapshotsAdded' = snapshotsAdded \cup {row}
    /\ nextSnapshotId' = nextSnapshotId + 1
    /\ ensureCalls' = [ensureCalls EXCEPT ![c].pc = "list"]
    /\ UNCHANGED clockDay

\* orderBy('date').reverse().toArray() resolves: toRemove is computed
EnsureList(c) ==
    /\ ensureCalls[c].pc = "list"
    /\ ensureCalls' = [ensureCalls EXCEPT ![c].pc = "delete",
                                          ![c].toRemove = ToRemove(snapshotsTable)]
    /\ UNCHANGED <<snapshotsTable, nextSnapshotId, clockDay, snapshotsAdded>>

\* Promise.all of the deletes resolves (deleting a missing key is a no-op)
EnsureDelete(c) ==
    /\ ensureCalls[c].pc = "delete"
    /\ snapshotsTable' = snapshotsTable \ ensureCalls[c].toRemove
    /\ ensureCalls' = [ensureCalls EXCEPT ![c] = IdleCall]
    /\ UNCHANGED <<nextSnapshotId, clockDay, snapshotsAdded>>

InitSnapshots ==
    /\ snapshotsTable = {}
    /\ nextSnapshotId = 1
    /\ clockDay = 1
    /\ ensureCalls = [c \in Calls |-> IdleCall]
    /\ snapshotsAdded = {}

----------------------------------------------------------------------------
(* fetchHistoricalPrices and its cache (Dashboard module).  Instants are   *)
(* the values Date.now() takes; two calls are at the same instant only     *)
(* when they read the same millisecond.  CACHE_DURATION is the hour, in    *)
(* instants, and WindowMs the 30 days between startTime and endTime.       *)

CACHE_DURATION == 3
WindowMs == 30

\* `${symbols.sort().join(',')}_${startTime}_${endTime}`: symbols hold no
\* comma and no underscore, so two keys are equal exactly when the sorted
\* symbol lists and both times are equal
CacheKey(symbols, startTime, endTime) == <<symbols, startTime, endTime>>

\* the symbol lists the history asks for (sorted)
SymbolLists == {<<"BTC">>, <<"BTC", "ETH">>}

\* the age of the newest entry the cache holds for a symbol on its own,
\* CACHE_DURATION when it holds none
NewestEntryAge(symbol) ==
    LET ages == {nowMs - historicalPriceCache[k].timestamp :
                    k \in {q \in DOMAIN historicalPriceCache : q[1] = <<symbol>>}}
    IN  IF ages = {} THEN CACHE_DURATION
        ELSE CHOOSE a \in ages : \A b \in ages : a <= b

\* cached && (Date.now() - cached.timestamp) < CACHE_DURATION
CacheLookup(key) ==
    /\ key \in DOMAIN historicalPriceCache
    /\ nowMs - historicalPriceCache[key].timestamp < CACHE_DURATION

\* a call of fetchHistoricalPrices up to its first await: the key is built
\* from the symbols and the current instant; on a hit the cached data is
\* returned, otherwise one klines request per symbol is issued
FetchCall(symbolLists) ==
    \E symbols \in symbolLists :
        LET endTime == nowMs
            startTime == nowMs - WindowMs
            cacheKey == CacheKey(symbols, startTime, endTime)
        IN  /\ nextFetchId <= MaxFetches
            /\ nextFetchId' = nextFetchId + 1
            /\ IF CacheLookup(cacheKey)
               THEN /\ cacheHits' = cacheHits \cup
                           {[at |-> nowMs, age |-> nowMs - historicalPriceCache[cacheKey].timestamp]}
                    /\ UNCHANGED <<fetchPending, klineRequests>>
               ELSE /\ fetchPending' = fetchPending \cup
                           {[call |-> nextFetchId, symbol |-> symbols[i],
                             startTime |-> startTime, endTime |-> endTime] : i \in 1..Len(symbols)}
                    /\ klineRequests' = klineRequests \cup
                           {[call |-> nextFetchId, symbol |-> symbols[i], at |-> nowMs,
                             age |-> NewestEntryAge(symbols[i])] : i \in 1..Len(symbols)}
                    /\ UNCHANGED cacheHits
            /\ UNCHANGED <<nowMs, historicalPriceCache>>

\* a klines response arrives: a failed one is dropped, a successful one is
\* parsed and stored under the symbol's own key with the current instant
FetchResponse(responses) ==
    \E req \in fetchPending, r \in responses :
        /\ fetchPending' = fetchPending \ {req}
        /\ historicalPriceCache' =
               IF r = Undefined THEN historicalPriceCache
               ELSE LET key == CacheKey(<<req.symbol>>, req.startTime, req.endTime)
                        entry == [data |-> ParseKlines(r[1]), timestamp |-> nowMs]
                    IN  [k \in DOMAIN historicalPriceCache \cup {key} |->
                            IF k = key THEN entry ELSE historicalPriceCache[k]]
        /\ UNCHANGED <<nowMs, nextFetchId, klineRequests, cacheHits>>

\* time passes
TimePasses ==
    /\ nowMs < MaxNow
    /\ nowMs' = nowMs + 1
    /\ UNCHANGED <<historicalPriceCache, fetchPending, nextFetchId, klineRequests, cacheHits>>

InitCache ==
    /\ nowMs = 0
    /\ historicalPriceCache = <<>>
    /\ fetchPending = {}
    /\ nextFetchId = 1
    /\ klineRequests = {}
    /\ cacheHits = {}

----------------------------------------------------------------------------
(* The Dashboard snapshot effect.  The live queries deliver undefined      *)
(* until their first result.  The effect hands its computation to          *)
(* startTransition; the callback is modelled as a step of its own that     *)
(* runs at the time of the effect or at any later time, which covers every *)
(* scheduling React can choose.                                            *)

Queries == {"ledger", "trades", "targets", "settings"}

\* ledgerReady && tradesReady && targetsReady && settingsReady
readyForCalculation == queriesLoaded = Queries

\* what the component holds of the tables and the settings while they load
LoadedLedger == IF "ledger" \in queriesLoaded THEN ledger ELSE <<>>
LoadedTrades == IF "trades" \in queriesLoaded THEN trades ELSE <<>>
LoadedTransferTradeIds ==
    IF "trades" \in queriesLoaded THEN TransferTradeIds(trades) ELSE Undefined
LoadedCustomPrices == IF "settings" \in queriesLoaded THEN customPrices ELSE NoPrices

\* holdings and prices as the component computes them in a render
DashboardHoldings == calculateHoldings(LoadedLedger, LoadedTrades, LoadedTransferTradeIds)
DashboardPrices == MergeLivePrices(socketPrices, LoadedCustomPrices)

\* a live query delivers its first result
LoadQuery ==
    \E q \in Queries \ queriesLoaded :
        /\ queriesLoaded' = queriesLoaded \cup {q}
        /\ UNCHANGED <<snapshot, lastStablePricesRef, snapshotDeps, transitions, callbackLog>>
        /\ UNCHANGED <<dbVars, pageVars, snapshotVars, cacheVars, managedVars>>

\* holdings.every(...): each holding has a finite live price or a price in
\* lastStablePricesRef
allPricesResolved(hs, prices) ==
    \A i \in 1..Len(hs) :
        \/ prices[hs[i].ticker] # Undefined
        \/ lastStablePricesRef[hs[i].ticker] # Undefined

\* the effect's dependencies as they are now
CurrentSnapshotDeps ==
    [ready |-> readyForCalculation, holdings |-> DashboardHoldings, prices |-> DashboardPrices]

\* the effect runs after a render in which a dependency changed: the
\* cleanup of the run before sets its cancelled flag; the new run returns
\* early or hands its callback to startTransition
SnapshotEffect ==
    /\ snapshotDeps # CurrentSnapshotDeps
    /\ snapshotDeps' = CurrentSnapshotDeps
    /\ LET cleaned == {[tr EXCEPT !.cancelled = TRUE] : tr \in transitions}
       IN  transitions' =
               IF readyForCalculation /\ allPricesResolved(DashboardHoldings, DashboardPrices)
               THEN cleaned \cup {[holdings |-> DashboardHoldings, prices |-> DashboardPrices,
                                   cancelled |-> FALSE]}
               ELSE cleaned
    /\ UNCHANGED <<queriesLoaded, snapshot, lastStablePricesRef, callbackLog>>
    /\ UNCHANGED <<dbVars, pageVars, snapshotVars, cacheVars, managedVars>>

\* resolvedPrices: for each holding the live price, else the last stable
\* price, else 0; no entry for a symbol that is not held
ResolvedPrices(hs, prices) ==
    [t \in Tickers |->
        IF \E i \in 1..Len(hs) : hs[i].ticker = t
        THEN IF prices[t] # Undefined THEN prices[t]
             ELSE IF lastStablePricesRef[t] # Undefined THEN lastStablePricesRef[t]
             ELSE Some(0)
        ELSE Undefined]

\* the mutation of TransitionPublishes that leaves out the cancelled checks
TransitionPublishesAlways(tr) == TRUE

\* if (cancelled) return, before and after the computation
TransitionPublishes(tr) == ~tr.cancelled

\* the callback handed to startTransition runs
TransitionCallback ==
    \E tr \in transitions :
        /\ transitions' = transitions \ {tr}
        /\ callbackLog' = callbackLog \cup
               {[cancelled |-> tr.cancelled, published |-> TransitionPublishes(tr)]}
        /\ IF TransitionPublishes(tr)
           THEN /\ lastStablePricesRef' = ResolvedPrices(tr.holdings, tr.prices)
                /\ snapshot' = Some([holdings |-> tr.holdings,
                                     prices |-> ResolvedPrices(tr.holdings, tr.prices)])
           ELSE UNCHANGED <<snapshot, lastStablePricesRef>>
        /\ UNCHANGED <<queriesLoaded, snapshotDeps>>
        /\ UNCHANGED <<dbVars, pageVars, snapshotVars, cacheVars, managedVars>>

InitDashboard ==
    /\ queriesLoaded = {}
    /\ snapshot = Undefined
    /\ lastStablePricesRef = NoPrices
    /\ snapshotDeps = [ready |-> FALSE, holdings |-> <<>>, prices |-> NoPrices]
    /\ transitions = {}
    /\ callbackLog = {}

----------------------------------------------------------------------------
(* Managed databases: the list and the current id kept in localStorage.
   A list entry is [id, label, dexieName]; createdAt and updatedAt are
   left out, no operation reads them. *)

MaxDatabases == 3

DEFAULT_DB_ID == "primary"
DEFAULT_DB_LABEL == "Primary Portfolio"

buildDbName(id) == "OpenSimperfiDB::" \o id

\* the texts typed as a label or as a Dexie name, and the ids asked for
Labels == {" ", "Main", "--"}
DexieNames == {" ", "OpenSimperfiDB::main", "Legacy"}
DatabaseIds == {"primary", "main", "main-2", "db", "nope"}
CopyFromIds == {"", "primary", "nope"}

\* String.prototype.trim on the texts above: only " " has white space at an end
Trim(text) == IF text = " " THEN "" ELSE text

\* lower case, every run of other characters to "-", a leading and a trailing
\* "-" dropped, "db" when nothing is left; on the labels above
slugify(label) ==
    CASE label = "Main" -> "main"
      [] label = "--" -> "db"
      [] OTHER -> "db"

NoCall == [op |-> "none", error |-> "", current |-> "", before |-> <<>>]

NormalizeDexieNames(list) ==
    [i \in 1..Len(list) |->
        IF list[i].dexieName = ""
        THEN [list[i] EXCEPT !.dexieName = buildDbName(list[i].id)]
        ELSE list[i]]

\* the storage ensureManagedDatabases leaves, whose list and currentId it returns
ensureManagedDatabases(list, current) ==
    IF Len(list) = 0
    THEN [list |-> <<[id |-> DEFAULT_DB_ID, label |-> DEFAULT_DB_LABEL,
                      dexieName |-> buildDbName(DEFAULT_DB_ID)]>>,
          currentId |-> DEFAULT_DB_ID]
    ELSE LET normalized == NormalizeDexieNames(list) IN
         [list |-> normalized,
          currentId |-> IF current = "" \/ ~\E i \in 1..Len(normalized) : normalized[i].id = current
                        THEN normalized[1].id
                        ELSE current]

\* the storage getManagedDatabases leaves, whose list it returns
getManagedDatabases(list, current) ==
    IF Len(list) = 0
    THEN ensureManagedDatabases(list, current)
    ELSE [list |-> NormalizeDexieNames(list), currentId |-> current]

\* the storage getCurrentDatabaseId leaves, whose currentId it returns
getCurrentDatabaseId(list, current) ==
    IF current # ""
    THEN [list |-> list, currentId |-> current]
    ELSE ensureManagedDatabases(list, current)

HasMetaAlways(list, id) == TRUE
\* list.find((db) => db.id === id) finds an entry: getMetaOrThrow does not throw
HasMeta(list, id) == \E i \in 1..Len(list) : list[i].id = id

RECURSIVE NextCandidate(_, _, _)
NextCandidate(base, suffix, existing) ==
    LET candidate == base \o "-" \o ToString(suffix) IN
    IF \E i \in 1..Len(existing) : existing[i].id = candidate
    THEN NextCandidate(base, suffix + 1, existing)
    ELSE candidate

generateDatabaseId(label, existing) ==
    LET base == slugify(label) IN
    IF ~\E i \in 1..Len(existing) : existing[i].id = base
    THEN base
    ELSE NextCandidate(base, 2, existing)

\* dexieFails: opening the new database, or initialising it, is rejected
createManagedDatabase(labels, copyFromIds) ==
    \E label \in labels, copyFromId \in copyFromIds, dexieFails \in BOOLEAN :
        LET trimmed == Trim(label) IN
        IF trimmed = ""
        THEN /\ lastCall' = [op |-> "create", error |-> "Database name is required",
                             current |-> storedCurrentDatabaseId, before |-> databaseList]
             /\ UNCHANGED <<databaseList, storedCurrentDatabaseId>>
        ELSE LET got == getManagedDatabases(databaseList, storedCurrentDatabaseId)
                 id == generateDatabaseId(trimmed, got.list)
                 meta == [id |-> id, label |-> trimmed, dexieName |-> buildDbName(id)]
                 written == Append(got.list, meta)
                 error == IF ~HasMeta(written, id) THEN "Database not found"
                          ELSE IF dexieFails THEN "Dexie error"
                          ELSE IF copyFromId # "" /\ ~HasMeta(written, copyFromId)
                               THEN "Database not found"
                               ELSE ""
             IN /\ Len(got.list) < MaxDatabases
                /\ databaseList' = written
                /\ storedCurrentDatabaseId' = got.currentId
                /\ lastCall' = [op |-> "create", error |-> error,
                             current |-> storedCurrentDatabaseId, before |-> databaseList]

\* dexieFails: the database named cannot be opened
attachExistingDatabase(labels, dexieNames) ==
    \E label \in labels, dexieNameInput \in dexieNames, dexieFails \in BOOLEAN :
        LET trimmedLabel == Trim(label)
            dexieName == Trim(dexieNameInput)
        IN
        IF trimmedLabel = "" \/ dexieName = ""
        THEN /\ lastCall' = [op |-> "attach",
                             error |-> IF trimmedLabel = "" THEN "Database name is required"
                                       ELSE "Dexie name is required",
                             current |-> storedCurrentDatabaseId, before |-> <<>>]
             /\ UNCHANGED <<databaseList, storedCurrentDatabaseId>>
        ELSE LET got == getManagedDatabases(databaseList, storedCurrentDatabaseId)
                 managed == \E i \in 1..Len(got.list) : got.list[i].dexieName = dexieName
                 id == generateDatabaseId(trimmedLabel, got.list)
                 meta == [id |-> id, label |-> trimmedLabel, dexieName |-> dexieName]
                 error == IF managed THEN "This Dexie database is already managed"
                          ELSE IF dexieFails THEN "Dexie error"
                          ELSE ""
             IN /\ Len(got.list) < MaxDatabases
                /\ databaseList' = IF error = "" THEN Append(got.list, meta) ELSE got.list
                /\ storedCurrentDatabaseId' = got.currentId
                /\ lastCall' = [op |-> "attach", error |-> error,
                             current |-> storedCurrentDatabaseId, before |-> <<>>]

\* dexieFails: Dexie.delete is rejected
deleteManagedDatabase(ids) ==
    \E id \in ids, dexieFails \in BOOLEAN :
        LET got == getManagedDatabases(databaseList, storedCurrentDatabaseId)
            error == IF Len(got.list) <= 1 THEN "At least one database must exist"
                     ELSE IF ~HasMeta(got.list, id) THEN "Database not found"
                     ELSE IF dexieFails THEN "Dexie error"
                     ELSE ""
            updated == SelectSeq(got.list, LAMBDA db : db.id # id)
            after == getCurrentDatabaseId(updated, got.currentId)
        IN /\ lastCall' = [op |-> "delete", error |-> error,
                        current |-> storedCurrentDatabaseId, before |-> <<>>]
           /\ IF error # ""
              THEN /\ databaseList' = got.list
                   /\ storedCurrentDatabaseId' = got.currentId
              ELSE /\ databaseList' = after.list
                   /\ storedCurrentDatabaseId' =
                          IF after.currentId = id THEN updated[1].id ELSE after.currentId

selectManagedDatabase(ids) ==
    \E id \in ids :
        LET got == getManagedDatabases(databaseList, storedCurrentDatabaseId)
            found == HasMeta(got.list, id)
        IN /\ lastCall' = [op |-> "select",
                           error |-> IF found THEN "" ELSE "Database not found",
                           current |-> storedCurrentDatabaseId, before |-> <<>>]
           /\ databaseList' = got.list
           /\ storedCurrentDatabaseId' = IF found THEN id ELSE got.currentId

\* the module has been loaded on an empty localStorage: bootstrap
InitManaged ==
    LET bootstrap == ensureManagedDatabases(<<>>, "") IN
    /\ databaseList = bootstrap.list
    /\ storedCurrentDatabaseId = bootstrap.currentId
    /\ lastCall = NoCall

InitService ==
    /\ InitSnapshots
    /\ InitCache
    /\ InitDashboard
    /\ InitManaged

----------------------------------------------------------------------------
(* Specification of the ledger as the holdings computation sees it *)

InitDb ==
    /\ ledger = <<>>
    /\ trades = <<>>
    /\ nextTradeId = 1
    /\ nextEntryId = 1

\* the history effect has run for the empty tables and stored the empty series
InitHistoryEffect ==
    /\ portfolioHistoryData = <<>>
    /\ historyDeps = [ledger |-> <<>>, trades |-> <<>>, prices |-> NoPrices]
    /\ historyRuns = {}
    /\ historyStarted = 0
    /\ historyShown = 0
    /\ wsStreams = {}
    /\ liveDeps = [assets |-> {}, overrides |-> NoPrices]
    /\ InitService

Init ==
    /\ InitDb
    /\ customPrices = NoPrices
    /\ socketPrices = NoPrices
    /\ historicalPrices = NoPrices
    /\ tzShift = 0
    /\ InitHistoryEffect

\* the amounts and prices typed into the forms
HoldingTickers == {"BTC", "ETH"}
AmountsOf(t) == IF t = "BTC" THEN {1, 2, 3} ELSE {2}
DepositPricesOf(t) == IF t = "BTC" THEN {0, 10, 20} ELSE {10}
GainAmounts == {1, 2}
GainPrices == {Undefined, Some(20)}
TransferAmounts == {3}

Next ==
    \/ \E t \in HoldingTickers : SubmitDeposit({Today}, {t}, AmountsOf(t), DepositPricesOf(t))
    \/ \E t \in HoldingTickers : SubmitWithdraw({Today}, {t}, AmountsOf(t), {Undefined})
    \/ SubmitGain({Today}, {"BTC"}, GainAmounts, GainPrices)
    \/ SubmitTransfer({Today}, {<<1, 2>>}, {"BTC"}, TransferAmounts)

Spec == Init /\ [][Next]_vars

----------------------------------------------------------------------------
(* Properties of calculateHoldings, stated on the ledger the forms built.  *)
(* "Before" is the same ledger without its last row.                       *)

TIds == TransferTradeIds(trades)
LastEntry == ledger[Len(ledger)]
LastTrade == trades[Len(trades)]
Prefix == SubSeq(ledger, 1, Len(ledger) - 1)
holdingsBefore == calculateHoldings(Prefix, trades, TIds)

HasHolding(hs, t) == \E i \in 1..Len(hs) : hs[i].ticker = t
HoldingFor(hs, t) == hs[CHOOSE i \in 1..Len(hs) : hs[i].ticker = t]

\* the entries of a ticker as <<amount, price or 0>> pairs, with their trade types
LegsOf(t) ==
    LET g == GroupOf(ledger, t)
    IN  [k \in 1..Len(g) |-> <<TradeTypeOf(trades, g[k].tradeId), g[k].amount, OrZero(g[k].usdPriceAtTime)>>]

\* the worked example, with DUST quanta as the traded unit
ExampleBuys == <<(<<"deposit", DUST, 10>>), (<<"deposit", DUST, 20>>)>>
ExampleSale == Append(ExampleBuys, <<"withdraw", -DUST, 0>>)

\* C1: a sale of a < Q units out of a running quantity Q > 0 with running
\* cost C >= 0 leaves quantity Q - a and cost C - a*C/Q, and the reported
\* avgBuyPrice is the same before and after; buys of one unit at 10 and one
\* at 20 give two units at average 15, and selling one leaves one unit with
\* a total cost basis of 15 per unit held.
C1_SaleKeepsAverage ==
    /\ (ledger # <<>> /\ LastEntry.amount < 0 /\ LastTrade.type # "transfer") =>
        LET t    == LastEntry.assetTicker
            pre  == RunningState(Prefix, trades, TIds, t)
            post == RunningState(ledger, trades, TIds, t)
            a    == -LastEntry.amount
            Q    == pre.totalQty
            C    == pre.totalCost
        IN  (Q > 0 /\ C[1] >= 0 /\ a < Q) =>
                /\ post.totalQty = Q - a
                /\ post.totalCost = RSub(C, Rat(a * C[1], C[2] * Q))
                /\ (HasHolding(holdingsBefore, t) /\ HasHolding(holdings, t)) =>
                       HoldingFor(holdings, t).avgBuyPrice = HoldingFor(holdingsBefore, t).avgBuyPrice
    /\ LegsOf("BTC") = ExampleBuys =>
        /\ HasHolding(holdings, "BTC")
        /\ HoldingFor(holdings, "BTC").amount = 2 * DUST
        /\ HoldingFor(holdings, "BTC").avgBuyPrice = RInt(15)
    /\ LegsOf("BTC") = ExampleSale =>
        /\ HasHolding(holdings, "BTC")
        /\ HoldingFor(holdings, "BTC").amount = DUST
        /\ HoldingFor(holdings, "BTC").totalCostBasis = RInt(15 * DUST)

C1_Witness == LegsOf("BTC") = ExampleSale

\* C2 (as claimed): appending a gain entry to an asset that has a holding
\* leaves the avgBuyPrice reported for the asset unchanged.
C2_GainKeepsAvgBuyPrice ==
    (ledger # <<>> /\ LastEntry.amount > 0 /\ LastTrade.type = "gain"
        /\ HasHolding(holdingsBefore, LastEntry.assetTicker)) =>
        /\ HasHolding(holdings, LastEntry.assetTicker)
        /\ HoldingFor(holdings, LastEntry.assetTicker).avgBuyPrice
               = HoldingFor(holdingsBefore, LastEntry.assetTicker).avgBuyPrice

\* C3: appending a gain entry of quantity q adds exactly q to the asset's
\* amount and leaves totalCostBasis and lastBuyPrice as they were, whatever
\* price the gain entry carries.
C3_GainAddsQuantityOnly ==
    (ledger # <<>> /\ LastEntry.amount > 0 /\ LastTrade.type = "gain") =>
        LET t    == LastEntry.assetTicker
            pre  == RunningState(Prefix, trades, TIds, t)
            post == RunningState(ledger, trades, TIds, t)
        IN  /\ post.totalQty = pre.totalQty + LastEntry.amount
            /\ post.totalCost = pre.totalCost
            /\ post.lastBuy = pre.lastBuy
            /\ HasHolding(holdingsBefore, t) =>
                /\ HasHolding(holdings, t)
                /\ HoldingFor(holdings, t).amount = HoldingFor(holdingsBefore, t).amount + LastEntry.amount
                /\ HoldingFor(holdings, t).totalCostBasis = HoldingFor(holdingsBefore, t).totalCostBasis
                /\ HoldingFor(holdings, t).lastBuyPrice = HoldingFor(holdingsBefore, t).lastBuyPrice

C3_Witness ==
    /\ ledger # <<>> /\ LastEntry.amount > 0 /\ LastTrade.type = "gain"
    /\ Truthy(LastEntry.usdPriceAtTime)
    /\ HasHolding(holdingsBefore, LastEntry.assetTicker)
    /\ HoldingFor(holdingsBefore, LastEntry.assetTicker).lastBuyPrice = 10
    /\ HoldingFor(holdings, LastEntry.assetTicker).totalCostBasis[1] > 0

\* the tables without one trade and its entries
TradesWithout(id) == SelectSeq(trades, LAMBDA tr : tr.id # id)
LedgerWithout(id) == SelectSeq(ledger, LAMBDA e : e.tradeId # id)

\* C4: the holdings computed with a transfer trade's two entries in the
\* ledger are the holdings computed without them, for every asset and
\* wherever the transfer falls in identifier order.
C4_TransferNeutral ==
    \A i \in 1..Len(trades) :
        trades[i].type = "transfer" =>
            holdings = calculateHoldings(LedgerWithout(trades[i].id),
                                         TradesWithout(trades[i].id),
                                         TransferTradeIds(TradesWithout(trades[i].id)))

C4_Witness ==
    /\ Len(trades) = 3
    /\ trades[2].type = "transfer"
    /\ \E i \in 1..Len(ledger) : ledger[i].tradeId = 2 /\ ledger[i].assetTicker = "BTC"
    /\ trades[1].type = "deposit" /\ trades[3].type = "deposit"
    /\ HasHolding(holdings, "BTC") /\ HasHolding(holdingsBefore, "BTC")
    /\ HoldingFor(holdings, "BTC").totalCostBasis[1] > 0
    /\ HoldingFor(holdings, "BTC").amount > HoldingFor(holdingsBefore, "BTC").amount

\* C5 (as claimed): every holding emitted has totalCostBasis >= 0 and amount >= 0.
C5_HoldingsNonNegative ==
    \A i \in 1..Len(holdings) :
        /\ holdings[i].totalCostBasis[1] >= 0
        /\ holdings[i].amount >= 0

\* C6: a holding is emitted for an asset exactly when its folded quantity is
\* at least the dust threshold; a folded quantity of absolute value below
\* the threshold becomes quantity 0 and cost 0; no emitted amount is zero
\* or negative.
C6_DustAndEmission ==
    /\ \A t \in Tickers :
        LET raw == RunningState(ledger, trades, TIds, t)
            fin == FinalState(ledger, trades, TIds, t)
        IN  /\ HasHolding(holdings, t) <=> raw.totalQty >= DUST
            /\ Abs(raw.totalQty) < DUST => (fin.totalQty = 0 /\ fin.totalCost = RInt(0))
            /\ Abs(raw.totalQty) >= DUST => fin = raw
    /\ \A i \in 1..Len(holdings) : holdings[i].amount > 0

C6_Witness ==
    /\ \E t \in Tickers :
        LET raw == RunningState(ledger, trades, TIds, t)
        IN  raw.totalQty > 0 /\ raw.totalQty < DUST /\ raw.totalCost[1] > 0
    /\ \E t \in Tickers : RunningState(ledger, trades, TIds, t).totalQty = DUST
    /\ \E t \in Tickers : HasHolding(holdings, t)

----------------------------------------------------------------------------
(* Specification of the ledger as calculateRealizedPnL sees it: sells and  *)
(* buys typed into the forms (a negative number typed into an amount       *)
(* field passes the schema), and backups holding one sell trade.           *)

\* rows of a backup: one trade of the given type with the given legs
DumpOf(type, legs) ==
    [trades |-> <<[id |-> 1, type |-> type, date |-> Today]>>,
     ledger |-> [k \in 1..Len(legs) |->
                    [id |-> k, tradeId |-> 1, accountId |-> legs[k].accountId,
                     assetTicker |-> legs[k].assetTicker,
                     amount |-> legs[k].amount, usdPriceAtTime |-> legs[k].usdPriceAtTime]],
     customPrices |-> [t \in Tickers |-> Undefined]]

SoldLegs == {<<>>} \cup {<<Leg("BTC", -1, p)>> : p \in {Undefined, Some(0), Some(3)}}
ReceivedLegs == {<<>>} \cup {<<Leg("USDT", 5, p)>> : p \in {Undefined, Some(0), Some(2)}}
SellDumps == {DumpOf("sell", s \o r) : s \in SoldLegs, r \in ReceivedLegs}

NextPnL ==
    \/ SubmitSell({Today}, {"BTC"}, {"USDT"}, {1, -1}, {5, -5}, {0, 3})
    \/ SubmitSell({Today}, {"BTC"}, {"ETH"}, {2}, {1}, {3})
    \/ SubmitBuy({Today}, {"BTC"}, {"USDT"}, {1}, {4}, {3})
    \/ ImportDump(SellDumps)

SpecPnL == Init /\ [][NextPnL]_vars

\* the legs calculateRealizedPnL picks for a trade
EntriesOf(tr) == SelectSeq(ledger, LAMBDA e : e.tradeId = tr.id)
HasSold(tr) == FindBySign(EntriesOf(tr), -1) # 0
HasReceived(tr) == FindBySign(EntriesOf(tr), 1) # 0
SoldOf(tr) == EntriesOf(tr)[FindBySign(EntriesOf(tr), -1)]
ReceivedOf(tr) == EntriesOf(tr)[FindBySign(EntriesOf(tr), 1)]

\* the sum the claim describes: the sold leg counts when it carries a
\* price, the received price is used as recorded (0 included), and 1 stands
\* in only for a missing received price
ClaimedSellPnL(tr) ==
    IF HasSold(tr) /\ HasReceived(tr) /\ Truthy(SoldOf(tr).usdPriceAtTime)
    THEN ReceivedOf(tr).amount
             * (IF ReceivedOf(tr).usdPriceAtTime = Undefined THEN 1
                ELSE ReceivedOf(tr).usdPriceAtTime[1])
         - Abs(SoldOf(tr).amount) * SoldOf(tr).usdPriceAtTime[1]
    ELSE 0

RECURSIVE ClaimedPnLUpTo(_)
ClaimedPnLUpTo(k) ==
    IF k = 0 THEN 0
    ELSE ClaimedPnLUpTo(k - 1)
             + (IF trades[k].type = "sell" THEN ClaimedSellPnL(trades[k]) ELSE 0)

\* C7 (as claimed): the realized PnL is the sum over the sell trades that
\* have a priced negative entry and a positive entry of
\* receivedQty * receivedPrice - |soldQty| * soldPrice, with 1 standing in
\* for the received price only when none was recorded.
C7_RealizedPnLSum == realizedPnL = ClaimedPnLUpTo(Len(trades))

\* C8: a sell trade without a negative entry, without a positive entry or
\* whose negative entry has no price adds 0; the entries of trades that are
\* not sells never change the result: taking such a trade and its entries
\* out of the tables leaves the realized PnL as it is.
C8_SkippedTradesAddZero ==
    \A i \in 1..Len(trades) :
        LET tr == trades[i]
            skipped == \/ tr.type # "sell"
                       \/ ~HasSold(tr)
                       \/ ~HasReceived(tr)
                       \/ ~Truthy(SoldOf(tr).usdPriceAtTime)
        IN  skipped =>
              /\ realizedPnL = calculateRealizedPnL(LedgerWithout(tr.id), TradesWithout(tr.id))
              /\ tr.type = "sell" => SellPnL(ledger, tr) = 0

C8_Witness ==
    /\ Len(trades) = 3
    /\ trades[1].type = "sell" /\ HasSold(trades[1]) /\ HasReceived(trades[1])
    /\ SoldOf(trades[1]).usdPriceAtTime = Undefined
    /\ trades[2].type = "sell" /\ SellPnL(ledger, trades[2]) # 0
    /\ trades[3].type = "buy" /\ HasSold(trades[3]) /\ HasReceived(trades[3])
    /\ realizedPnL = SellPnL(ledger, trades[2])

----------------------------------------------------------------------------
(* Specification of the portfolio history: a small ledger dated before,    *)
(* inside and at the end of the window, overrides, socket prices and       *)
(* fetched closes.                                                         *)

InitHistory ==
    /\ InitDb
    /\ customPrices = NoPrices
    /\ socketPrices = NoPrices
    /\ historicalPrices = NoPrices
    /\ tzShift \in {-1, 0, 1}
    /\ InitHistoryEffect

\* the candles of a response: close by UTC day (kline[4] by kline[0])
KlineMaps == {<<>>, (12 :> 60 @@ 13 :> 0), (9 :> 40 @@ 28 :> 70)}
HistoricalResults ==
    {NoPrices} \cup {[NoPrices EXCEPT !["BTC"] = Some(m)] : m \in KlineMaps}

\* the history is computed over ledgers of at most this many trades
MaxHistoryTrades == 2

NextHistory ==
    \/ Len(trades) < MaxHistoryTrades /\ SubmitDeposit({-5, 12, Today}, {"BTC"}, {3}, {10})
    \/ Len(trades) < MaxHistoryTrades /\ SubmitWithdraw({20}, {"BTC"}, {1}, {Some(30)})
    \/ handlePriceDialogSave({7})
    \/ handlePriceDialogClear
    \/ UseLivePricesEffect
    \/ OnSocketMessage({50})
    \/ FetchHistoricalPrices(HistoricalResults)

SpecHistory == InitHistory /\ [][NextHistory]_vars

RECURSIVE SumSeq(_)
SumSeq(xs) == IF xs = <<>> THEN 0 ELSE SumSeq(SubSeq(xs, 1, Len(xs) - 1)) + xs[Len(xs)]

\* the holdings calculatePortfolioHistory derives for a day of the window
HoldingsAtDate(currentDate) ==
    calculateHoldings(EntriesUpToDate(ledger, trades, currentDate), trades, TIds)

\* the history the Dashboard would compute with no manual override at all
historyWithoutOverrides ==
    calculatePortfolioHistory(ledger, trades, TIds,
                              MergeLivePrices(socketPrices, NoPrices), historicalPrices)

\* the value of a day when every overridden symbol is priced at its override
\* and every other symbol as calculatePortfolioHistory prices it
ValueAtOverrides(currentDate) ==
    LET hs == HoldingsAtDate(currentDate)
        upTo == EntriesUpToDate(ledger, trades, currentDate)
        priceOf(t) ==
            IF customPrices[t] # Undefined THEN customPrices[t][1]
            ELSE HistoryPrice(t, currentDate, upTo, livePrices, historicalPrices)
    IN  SumSeq([j \in 1..Len(hs) |-> hs[j].amount * priceOf(hs[j].ticker)])

\* the value of today when an overridden symbol is priced at its override
\* and every other symbol at its socket price (0 when none has arrived)
TodayValueAtOverrides ==
    LET hs == HoldingsAtDate(Today)
        priceOf(t) ==
            IF customPrices[t] # Undefined THEN customPrices[t][1]
            ELSE OrZero(socketPrices[t])
    IN  SumSeq([j \in 1..Len(hs) |-> hs[j].amount * priceOf(hs[j].ticker)])

C11_TodayFallsThrough ==
    LET h == portfolioHistory
        hs == HoldingsAtDate(Today)
        upTo == EntriesUpToDate(ledger, trades, Today)
        priceOf(t) ==
            IF livePrices[t] # Undefined THEN OrZero(livePrices[t])
            ELSE PastPrice(t, ISODate(Today), upTo, historicalPrices)
    IN  ledger # <<>> =>
            h[Today + 1].value = SumSeq([j \in 1..Len(hs) |-> hs[j].amount * priceOf(hs[j].ticker)])

\* the dates a symbol has a fetched close for
CloseDates(t) == IF historicalPrices[t] = Undefined THEN {} ELSE DOMAIN historicalPrices[t][1]

\* the latest date on or before dateStr the symbol has a close for
LatestCloseDate(t, dateStr) ==
    CHOOSE k \in CloseDates(t) : k <= dateStr /\ \A j \in CloseDates(t) : j <= dateStr => j <= k

\* a past day lacks a close of the symbol and an earlier date has one
MissesCloseWithEarlier(t, dateStr) ==
    /\ dateStr \notin CloseDates(t)
    /\ \E k \in CloseDates(t) : k <= dateStr

TradeDateOf(e) == trades[CHOOSE i \in 1..Len(trades) : trades[i].id = e.tradeId].date

\* the positive price of the symbol's entry with the latest trade date (the
\* latest written, among those of one date), inflow or outflow; 0 without one
LatestPricedEntryPrice(t, upTo) ==
    LET priced == {j \in 1..Len(upTo) :
                      /\ upTo[j].assetTicker = t
                      /\ Truthy(upTo[j].usdPriceAtTime)
                      /\ upTo[j].usdPriceAtTime[1] > 0}
    IN  IF priced = {} THEN 0
        ELSE upTo[CHOOSE j \in priced :
                      \A k \in priced :
                          \/ TradeDateOf(upTo[k]) < TradeDateOf(upTo[j])
                          \/ TradeDateOf(upTo[k]) = TradeDateOf(upTo[j]) /\ k <= j
                 ].usdPriceAtTime[1]

\* C13 (as claimed): on a past day with no historical close of a symbol on
\* or before it, the price used is the positive price snapshot of the
\* symbol's ledger entry with the latest trade date on or before the day,
\* inflows and outflows alike, and 0 when no entry has a positive price.
C13_LedgerPriceOfLatestEntry ==
    LET h == portfolioHistory IN
    \A i \in 1..Today :
        LET currentDate == allDates[i]
            dateStr == ISODate(currentDate)
            hs == HoldingsAtDate(currentDate)
            upTo == EntriesUpToDate(ledger, trades, currentDate)
            priceOf(t) ==
                IF \A k \in CloseDates(t) : k > dateStr
                THEN LatestPricedEntryPrice(t, upTo)
                ELSE HistoryPrice(t, currentDate, upTo, livePrices, historicalPrices)
        IN  ledger # <<>> =>
                h[i].value = SumSeq([j \in 1..Len(hs) |-> hs[j].amount * priceOf(hs[j].ticker)])

----------------------------------------------------------------------------
(* Specification of the stable assets: deposits of USDT and USDC, the       *)
(* live feed, manual prices and fetched closes for them.                   *)

StableTickers == {t \in Tickers : isStablecoin(t)}

\* USDCUSDT has daily candles; the USDTUSDT request fails
StableResponses == {NoPrices, [NoPrices EXCEPT !["USDC"] = Some(5 :> 2)]}

NextStable ==
    \/ Len(trades) < MaxHistoryTrades /\ SubmitDeposit({0, 12}, StableTickers, {3}, {1})
    \/ handlePriceDialogSave({7})
    \/ handlePriceDialogClear
    \/ UseLivePricesEffect
    \/ OnSocketMessage({1, 2})
    \/ FetchHistoricalPrices(StableResponses)

SpecStable == Init /\ [][NextStable]_vars

\* C14 (as claimed): every recognized stable asset is valued at exactly 1 in
\* the live price map (once the live prices effect has run for the listed
\* assets) and on every history day, whatever socket messages arrive and
\* whatever historical closes or ledger prices exist for it.
C14_StablecoinsAtOne ==
    LET h == portfolioHistory IN
    /\ socketPrices["USDT"] = Some(1) =>
           \A t \in assetList : isStablecoin(t) => livePrices[t] = Some(1)
    /\ ledger # <<>> =>
           \A i \in 1..(Today + 1) :
               LET currentDate == allDates[i]
                   hs == HoldingsAtDate(currentDate)
                   upTo == EntriesUpToDate(ledger, trades, currentDate)
                   priceOf(t) ==
                       IF isStablecoin(t) THEN 1
                       ELSE HistoryPrice(t, currentDate, upTo, livePrices, historicalPrices)
               IN  h[i].value = SumSeq([j \in 1..Len(hs) |-> hs[j].amount * priceOf(hs[j].ticker)])

----------------------------------------------------------------------------
(* Specification of the history effect: deposits and socket prices change   *)
(* its dependencies, every run starts a computation, fetches resolve in     *)
(* any order.                                                               *)

RaceResponses == {NoPrices, [NoPrices EXCEPT !["BTC"] = Some(12 :> 60)]}

NextRace ==
    \/ Len(trades) < MaxHistoryTrades /\ SubmitDeposit({12, Today}, {"BTC"}, {3}, {10})
    \/ OnSocketMessage({50})
    \/ HistoryEffect
    \/ HistoryResolves(RaceResponses)

SpecRace == Init /\ [][NextRace]_vars

\* C15 (as claimed): a superseded computation never overwrites the result
\* of a newer one: whenever no computation is pending, the series on
\* display is the result of the computation that was started last.
C15_NewestResultShown ==
    historyRuns = {} => historyShown = historyStarted

----------------------------------------------------------------------------
(* Specification of the transactions page: the forms write trades with     *)
(* their entries, handleDelete removes them.  The key generators never     *)
(* reuse an id, so the forms stop at the last id the model allows.         *)

TradeIds == 1..(MaxTrades + 1)

NextDelete ==
    \/ nextTradeId <= MaxTrades /\ SubmitDeposit({Today}, {"BTC"}, {3}, {10})
    \/ nextTradeId <= MaxTrades /\ SubmitWithdraw({Today}, {"BTC"}, {1}, {Undefined})
    \/ nextTradeId <= MaxTrades /\ SubmitGain({Today}, {"BTC"}, {2}, {Undefined})
    \/ nextTradeId <= MaxTrades /\ SubmitTransfer({Today}, {<<1, 2>>}, {"BTC"}, {3})
    \/ nextTradeId <= MaxTrades /\ SubmitSell({Today}, {"BTC"}, {"USDT"}, {1}, {5}, {3})
    \/ nextTradeId <= MaxTrades /\ SubmitBuy({Today}, {"BTC"}, {"USDT"}, {1}, {4}, {3})
    \/ handleDelete(TradeIds)

SpecDelete == Init /\ [][NextDelete]_vars

\* the entry's tradeId is the id of a trade in the table
HasTrade(e) == \E i \in 1..Len(trades) : trades[i].id = e.tradeId

\* C17: after any sequence of form submissions and deletions every ledger
\* entry's tradeId refers to an existing trade: a deletion removes the
\* trade and all of its entries in one step, so no state has an entry of a
\* trade that is gone.
C17_EveryEntryHasItsTrade ==
    \A k \in 1..Len(ledger) : HasTrade(ledger[k])

\* the two-entry trade 1 was deleted, trade 2 and its entries remain
C17_Witness ==
    /\ nextTradeId = 3
    /\ nextEntryId >= 4
    /\ Len(trades) = 1
    /\ trades[1].id = 2
    /\ ledger # <<>>
    /\ \A k \in 1..Len(ledger) : ledger[k].tradeId = 2

----------------------------------------------------------------------------
(* Specification of restored backups: a backup may carry ledger rows whose *)
(* trade is missing.                                                       *)

OwnEntries == {<<>>, <<[id |-> 1, tradeId |-> 1, accountId |-> 1, assetTicker |-> "BTC",
                        amount |-> 3, usdPriceAtTime |-> Some(10)]>>}
OrphanEntries ==
    {<<>>} \cup
    {<<[id |-> 2, tradeId |-> 7, accountId |-> 1, assetTicker |-> t, amount |-> a,
        usdPriceAtTime |-> Some(10)]>> :
        t \in {"BTC", "ETH"}, a \in {2, -1}}
OrphanDumps ==
    {[trades |-> <<[id |-> 1, type |-> "deposit", date |-> 12]>>,
      ledger |-> own \o orphan,
      customPrices |-> NoPrices] : own \in OwnEntries, orphan \in OrphanEntries}

NextOrphan ==
    \/ ImportDump(OrphanDumps)
    \/ nextTradeId <= MaxTrades /\ SubmitDeposit({-5, Today}, {"BTC"}, {3}, {10})
    \/ handleDelete(TradeIds)
    \/ OnSocketMessage({50})

SpecOrphan == Init /\ [][NextOrphan]_vars

\* the ledger without the entries whose trade is missing
WithoutOrphans == SelectSeq(ledger, HasTrade)

\* C16 (as claimed): an entry whose tradeId refers to no existing trade is
\* left out of the current holdings and of every day of the history.
C16_OrphansLeftOut ==
    LET h == portfolioHistory IN
    /\ holdings = calculateHoldings(WithoutOrphans, trades, TIds)
    /\ \A i \in 1..Len(h) :
           h[i].value = HistoryPoint(WithoutOrphans, trades, TIds, livePrices,
                                     historicalPrices, allDates[i]).value

----------------------------------------------------------------------------
(* Specification of the two-legged forms: the amounts are any strings the  *)
(* schemas let through (z.string().min(1)), parsed by parseFloat: positive,*)
(* zero or negative numbers.                                               *)

AccountPairs == {<<1, 2>>, <<2, 1>>, <<1, 1>>}

NextLegs ==
    \/ SubmitBuy({Today}, {"BTC"}, {"USDT"}, {2, -2}, {4}, {3})
    \/ SubmitSell({Today}, {"BTC"}, {"USDT"}, {1}, {5, 0}, {3})
    \/ SubmitTrade({Today}, {"BTC"}, {"ETH"}, {2, 0}, {3}, {10}, {5})
    \/ SubmitTransfer({Today}, AccountPairs, {"BTC"}, {3, 0, -3})

SpecLegs == Init /\ [][NextLegs]_vars

\* C18 (as claimed): every buy, sell or trade written by the Buy, Sell and
\* Trade forms has exactly two ledger entries, one with amount < 0 and one
\* with amount > 0, whatever amounts pass the schema.
C18_TwoOppositeLegs ==
    \A i \in 1..Len(trades) :
        trades[i].type \in {"buy", "sell", "trade"} =>
            LET es == EntriesOf(trades[i]) IN
            /\ Len(es) = 2
            /\ \E a, b \in 1..2 : a # b /\ es[a].amount < 0 /\ es[b].amount > 0

\* C19 (as claimed): every transfer written by the Transfer form has
\* exactly two ledger entries of one asset on two different accounts, -q on
\* the source account and +q on the destination account with q > 0,
\* whatever amount passes the schema.
C19_TransferMovesPositiveAmount ==
    \A i \in 1..Len(trades) :
        trades[i].type = "transfer" =>
            LET es == EntriesOf(trades[i]) IN
            /\ Len(es) = 2
            /\ es[1].assetTicker = es[2].assetTicker
            /\ es[1].accountId # es[2].accountId
            /\ es[1].amount < 0
            /\ es[2].amount = -es[1].amount

----------------------------------------------------------------------------
(* Specification of useLivePrices: deposits list assets, the price dialog  *)
(* sets and clears overrides, the effect reopens the socket, messages      *)
(* arrive on the open socket.                                              *)

NextLive ==
    \/ Len(trades) < MaxHistoryTrades /\ SubmitDeposit({Today}, {"BTC", "ETH", "USDT"}, {3}, {10})
    \/ handlePriceDialogSave({7})
    \/ handlePriceDialogClear
    \/ LivePricesEffect
    \/ OnStreamMessage({50, 60})

SpecLive == Init /\ [][NextLive]_vars

\* C20: while a manual override exists for a symbol the price returned for
\* it is the override, whatever the socket has delivered, and once the
\* effect has run for the overrides as they are the symbol is not among the
\* socket's streams; a listed symbol other than USDT without an override
\* (never overridden, or its override cleared) is among them.
C20_OverrideShadowsSocket ==
    /\ \A t \in Tickers :
           customPrices[t] # Undefined => livePrices[t] = customPrices[t]
    /\ liveDeps = CurrentLiveDeps =>
           \A t \in Tickers :
               /\ customPrices[t] # Undefined => t \notin wsStreams
               /\ (t \in assetList /\ t # "USDT" /\ customPrices[t] = Undefined)
                      => t \in wsStreams

\* BTC got 50 from the socket and was then overridden at 7; ETH is streamed
C20_Witness ==
    /\ customPrices["BTC"] = Some(7)
    /\ socketPrices["BTC"] = Some(50)
    /\ livePrices["BTC"] = Some(7)
    /\ liveDeps = CurrentLiveDeps
    /\ wsStreams = {"ETH"}
    /\ socketPrices["ETH"] = Some(60)

----------------------------------------------------------------------------
(* Specification of the daily snapshots: the ensureDailySnapshot calls of  *)
(* the App setup effect, step by step, and the wall clock.                 *)

\* midnight (UTC) passes
ClockTick ==
    /\ clockDay < MaxDay
    /\ clockDay' = clockDay + 1
    /\ UNCHANGED <<snapshotsTable, nextSnapshotId, ensureCalls, snapshotsAdded>>

NextSnapshots ==
    \/ \E c \in Calls : EnsureStart(c) /\ UNCHANGED <<dbVars, pageVars, cacheVars, dashVars, managedVars>>
    \/ \E c \in Calls : EnsureFirst(c) /\ UNCHANGED <<dbVars, pageVars, cacheVars, dashVars, managedVars>>
    \/ \E c \in Calls : EnsureAdd(c) /\ UNCHANGED <<dbVars, pageVars, cacheVars, dashVars, managedVars>>
    \/ \E c \in Calls : EnsureList(c) /\ UNCHANGED <<dbVars, pageVars, cacheVars, dashVars, managedVars>>
    \/ \E c \in Calls : EnsureDelete(c) /\ UNCHANGED <<dbVars, pageVars, cacheVars, dashVars, managedVars>>
    \/ ClockTick /\ UNCHANGED <<dbVars, pageVars, cacheVars, dashVars, managedVars>>

SpecSnapshots == Init /\ [][NextSnapshots]_vars

\* no ensureDailySnapshot call is in flight
NoCallInFlight == \A c \in Calls : ensureCalls[c].pc = "idle"

\* the 5 rows of a set with the most recent dates (the later written first
\* among rows of one date), or all of them when there are fewer
MostRecentRows(rows) ==
    {r \in rows :
        Cardinality({q \in rows : q.date > r.date \/ (q.date = r.date /\ q.id > r.id)}) < 5}

\* C21: the rows of db.snapshots always include the 5 most recent rows ever
\* added (no run deletes one of them), and when no run is in flight the
\* table holds at most 5 rows, which are exactly those most recent ones.
C21_KeepsFiveMostRecent ==
    /\ MostRecentRows(snapshotsAdded) \subseteq snapshotsTable
    /\ NoCallInFlight =>
           /\ Cardinality(snapshotsTable) <= 5
           /\ snapshotsTable = MostRecentRows(snapshotsAdded)

\* one run a day for six days: days 2 to 6 are kept, day 1 is gone
C21_Witness ==
    /\ NoCallInFlight
    /\ {r.date : r \in snapshotsAdded} = 1..6
    /\ Cardinality(snapshotsAdded) = 6
    /\ {r.date : r \in snapshotsTable} = 2..6
    /\ Cardinality(snapshotsTable) = 5

\* C22 (as claimed): db.snapshots never holds two rows of the same date,
\* also while two ensureDailySnapshot calls are in flight together.
C22_OneSnapshotPerDate ==
    \A r1 \in snapshotsTable : \A r2 \in snapshotsTable : r1.date = r2.date => r1 = r2

----------------------------------------------------------------------------
(* Specification of the replay by date: deposits, withdrawals and          *)
(* transfers of several dates inside the window, socket prices and         *)
(* fetched closes.                                                         *)

ReplayResponses == {NoPrices, [NoPrices EXCEPT !["BTC"] = Some(10 :> 60 @@ 22 :> 70)]}

NextReplay ==
    \/ Len(trades) < MaxHistoryTrades /\ SubmitDeposit({5, 20}, {"BTC", "ETH"}, {3}, {10})
    \/ Len(trades) < MaxHistoryTrades /\ SubmitWithdraw({12, 25}, {"BTC"}, {1}, {Some(30)})
    \/ Len(trades) < MaxHistoryTrades /\ SubmitTransfer({15}, {<<1, 2>>}, {"BTC"}, {3})
    \/ UseLivePricesEffect
    \/ OnSocketMessage({50})
    \/ FetchHistoricalPrices(ReplayResponses)

SpecReplay == InitHistory /\ [][NextReplay]_vars

\* the trades dated on or before a day, and the entries that belong to them
TradesDatedUpTo(d) == SelectSeq(trades, LAMBDA tr : tr.date <= d)
LedgerDatedUpTo(d) ==
    SelectSeq(ledger, LAMBDA e :
        \E i \in 1..Len(trades) : trades[i].id = e.tradeId /\ trades[i].date <= d)

\* the value a computed history has for the i-th day of the window,
\* undefined when it has no such point
ValueOfDay(h, i) == IF i \in DOMAIN h THEN Some(h[i].value) ELSE Undefined

\* the same for the history of the ledger without the trades dated after
\* the i-th day: no point for an empty ledger, the day's point otherwise
ValueOfDayWithoutLater(i) ==
    LET d == allDates[i]
        entries == LedgerDatedUpTo(d)
        trs == TradesDatedUpTo(d)
    IN  IF Len(entries) = 0 THEN Undefined
        ELSE Some(HistoryPoint(entries, trs, TransferTradeIds(trs),
                               livePrices, historicalPrices, d).value)

\* the sum of amount * price over the holdings of the entries dated on or
\* before the i-th day, transfers excluded, each symbol at the day's price
DatedHoldingsValue(i) ==
    LET d == allDates[i]
        entries == LedgerDatedUpTo(d)
        trs == TradesDatedUpTo(d)
        hs == calculateHoldings(entries, trs, TransferTradeIds(trs))
    IN  SumSeq([j \in 1..Len(hs) |->
                   hs[j].amount * HistoryPrice(hs[j].ticker, d, entries, livePrices, historicalPrices)])

\* C23 (as claimed): for every day of the window the value of the history
\* is the value of the history of the ledger without the trades dated after
\* that day, and it is the sum of amount * price over the holdings of the
\* entries dated on or before the day.
C23_NoLookAhead ==
    LET h == portfolioHistory IN
    \A i \in 1..(Today + 1) :
        /\ ValueOfDay(h, i) = ValueOfDayWithoutLater(i)
        /\ ValueOfDay(h, i) = Some(DatedHoldingsValue(i))

\* C23 (amended): for a ledger that is not empty, the value of every day of
\* the window is the sum of amount * price over the holdings of the entries
\* dated on or before the day, transfers excluded, and it is the value the
\* history has for that day without the trades dated after it whenever
\* some entry is dated on or before the day; the history of an empty ledger
\* has no point for any day.
C23_NoLookAheadUnlessEmpty ==
    LET h == portfolioHistory IN
    \A i \in 1..(Today + 1) :
        /\ ledger # <<>> => ValueOfDay(h, i) = Some(DatedHoldingsValue(i))
        /\ LedgerDatedUpTo(allDates[i]) # <<>> => ValueOfDay(h, i) = ValueOfDayWithoutLater(i)
        /\ ledger = <<>> => ValueOfDay(h, i) = Undefined

\* 3 BTC deposited on day 5 and 3 more on day 20, closes 60 and 70 filed
\* under days 10 and 22: day 10 is worth 3 * 60, day 22 is worth 6 * 70
C23_Witness ==
    LET h == portfolioHistory IN
    /\ tzShift = 0
    /\ Len(trades) = 2
    /\ Len(LedgerDatedUpTo(10)) = 1
    /\ Len(LedgerDatedUpTo(22)) = 2
    /\ ValueOfDay(h, 11) = Some(3 * 60)
    /\ ValueOfDayWithoutLater(11) = Some(3 * 60)
    /\ ValueOfDay(h, 23) = Some(6 * 70)

----------------------------------------------------------------------------
(* Specification of the historical price cache: calls for one symbol and   *)
(* for two, responses that succeed or fail, and the passing of time.       *)

CacheResponses == {Undefined, Some(12 :> 60)}

NextCache ==
    \/ FetchCall(SymbolLists) /\ UNCHANGED <<dbVars, pageVars, snapshotVars, dashVars, managedVars>>
    \/ FetchResponse(CacheResponses) /\ UNCHANGED <<dbVars, pageVars, snapshotVars, dashVars, managedVars>>
    \/ TimePasses /\ UNCHANGED <<dbVars, pageVars, snapshotVars, dashVars, managedVars>>

SpecCache == Init /\ [][NextCache]_vars

\* C24 (as claimed): no klines request is issued for a symbol while the
\* cache holds an entry of that symbol stored less than an hour before, and
\* no call is answered with an entry stored an hour or more before.
C24_OneRequestPerHour ==
    /\ \A req \in klineRequests : req.age >= CACHE_DURATION
    /\ \A hit \in cacheHits : hit.age < CACHE_DURATION

----------------------------------------------------------------------------
(* Specification of calculateHoldings as a function of its arguments: the  *)
(* entries array in any order and the trades with any dates.  The forms    *)
(* supply the rows; the array handed to the function is then permuted and  *)
(* the trades redated.                                                     *)

\* the caller passes the same entries in another order: two neighbours swap
PermuteEntries ==
    \E i \in 1..(Len(ledger) - 1) :
        /\ ledger' = [ledger EXCEPT ![i] = ledger[i + 1], ![i + 1] = ledger[i]]
        /\ UNCHANGED <<trades, nextTradeId, nextEntryId, nonDbVars>>

\* the caller passes the same trades with another timestamp on one of them
RedateTrade(days) ==
    \E i \in 1..Len(trades), d \in days :
        /\ trades[i].date # d
        /\ trades' = [trades EXCEPT ![i].date = d]
        /\ UNCHANGED <<ledger, nextTradeId, nextEntryId, nonDbVars>>

NextPermute ==
    \/ SubmitDeposit({5}, {"BTC"}, {3}, {10, 20})
    \/ SubmitDeposit({5}, {"ETH"}, {3}, {10})
    \/ SubmitWithdraw({5}, {"BTC"}, {2}, {Undefined})
    \/ SubmitGain({5}, {"BTC"}, {3}, {Some(20)})
    \/ PermuteEntries
    \/ RedateTrade({5, 9})

SpecPermute == Init /\ [][NextPermute]_vars

\* the entries of the input in ascending order of their identifiers
RECURSIVE AscendingIds(_)
AscendingIds(entries) ==
    IF entries = <<>> THEN <<>>
    ELSE LET m == CHOOSE i \in 1..Len(entries) :
                      \A j \in 1..Len(entries) : entries[j].id <= entries[i].id
         IN  Append(AscendingIds(SelectSeq(entries, LAMBDA e : e.id # entries[m].id)),
                    entries[m])

\* the trades with every timestamp replaced by one day
SameDay(trs) == [i \in 1..Len(trs) |-> [trs[i] EXCEPT !.date = 0]]

\* C25: for entries with pairwise distinct identifiers the holdings of the
\* array, in whatever order it is, are the holdings of the same entries in
\* ascending identifier order, and they stay the same when the trades'
\* timestamps change.
C25_OrderAndDatesDoNotMatter ==
    (\A i \in 1..Len(ledger) : \A j \in 1..Len(ledger) : ledger[i].id = ledger[j].id => i = j)
        => /\ calculateHoldings(ledger, trades, TIds)
                  = calculateHoldings(AscendingIds(ledger), trades, TIds)
           /\ calculateHoldings(ledger, trades, TIds)
                  = calculateHoldings(ledger, SameDay(trades), TIds)

\* the array holds a withdrawal of 2 BTC before the deposits of 3 BTC at 10
\* and 3 BTC at 20 that were written before it: 4 BTC with cost basis 60
C25_Witness ==
    /\ Len(ledger) = 3
    /\ ledger[1].id = 3 /\ ledger[1].amount = -2
    /\ ledger[2].id = 2 /\ ledger[2].usdPriceAtTime = Some(20)
    /\ ledger[3].id = 1 /\ ledger[3].usdPriceAtTime = Some(10)
    /\ trades[1].date # trades[2].date
    /\ Len(holdings) = 1
    /\ holdings[1].amount = 4
    /\ holdings[1].totalCostBasis = RInt(60)

----------------------------------------------------------------------------
(* The fold of a negative entry, stated on the ledger the forms built: the *)
(* running state of the entry's symbol before and after the last row.      *)

\* the running state of the last row's symbol before and after that row
RunningBefore == RunningState(Prefix, trades, TIds, LastEntry.assetTicker)
RunningAfter == RunningState(ledger, trades, TIds, LastEntry.assetTicker)

\* C26 (as claimed): in every state the fold reaches, folding a negative
\* entry removes |amount| from the quantity, and removes from the cost
\* basis |amount| * costBasis / quantity when the running cost basis is
\* above zero and nothing otherwise (with a cost basis above zero and a
\* quantity of zero the amount to remove is not a number the fold can have
\* removed).
C26_NegativeEntryByCostBasis ==
    (ledger # <<>> /\ LastEntry.amount < 0 /\ LastEntry.tradeId \notin TIds[1]) =>
        /\ RunningAfter.totalQty = RunningBefore.totalQty - Abs(LastEntry.amount)
        /\ IF RunningBefore.totalCost[1] > 0
           THEN /\ RunningBefore.totalQty # 0
                /\ RunningAfter.totalCost =
                       RSub(RunningBefore.totalCost,
                            RMul(RInt(Abs(LastEntry.amount)),
                                 RDivInt(RunningBefore.totalCost, RunningBefore.totalQty)))
           ELSE RunningAfter.totalCost = RunningBefore.totalCost

----------------------------------------------------------------------------
(* Specification of the Dashboard snapshot: the live queries load, rows    *)
(* are deposited, prices arrive from the socket or are typed in, the       *)
(* effect and its transition callbacks run.                                *)

NextDashboard ==
    \/ LoadQuery
    \/ Len(trades) < MaxHistoryTrades /\ SubmitDeposit({Today}, {"BTC", "USDT"}, {3}, {10})
    \/ readyForCalculation /\ handlePriceDialogSave({7})
    \/ readyForCalculation /\ UseLivePricesEffect
    \/ readyForCalculation /\ OnSocketMessage({50})
    \/ SnapshotEffect
    \/ TransitionCallback

SpecDashboard == Init /\ [][NextDashboard]_vars

\* React runs an effect after every render that changed a dependency, runs
\* every callback handed to startTransition, and every live query delivers
\* its result; the socket owes no message and the user no input.
\* SnapshotEffect is enabled exactly when the dependencies differ from
\* those of its last run, and a run makes them equal, so weak fairness of
\* SnapshotEffect is the condition that they are equal again and again.
SpecDashboardFair ==
    /\ SpecDashboard
    /\ WF_vars(LoadQuery)
    /\ WF_vars(TransitionCallback)
    /\ []<>(snapshotDeps = CurrentSnapshotDeps)

\* C27 (as claimed): once the four live queries have loaded, a snapshot is
\* eventually published, whether or not the socket ever delivers a price
\* for a held symbol.
C27_EventuallyPublishes == readyForCalculation ~> (snapshot # Undefined)

\* C28: a published snapshot has a price entry for each of its holdings
\* and exists only once the four live queries have loaded; every callback
\* waiting to run was handed over after they had loaded; and no callback
\* that ran after its effect was cleaned up has called setSnapshot or
\* written lastStablePricesRef.
C28_SnapshotComplete ==
    /\ snapshot # Undefined =>
           /\ readyForCalculation
           /\ \A i \in 1..Len(snapshot[1].holdings) :
                  snapshot[1].prices[snapshot[1].holdings[i].ticker] # Undefined
    /\ transitions # {} => readyForCalculation
    /\ \A run \in callbackLog : run.cancelled => ~run.published

\* a snapshot of 3 BTC at the socket price 50 is on display, and a callback
\* whose effect had been cleaned up has run without publishing
C28_Witness ==
    /\ snapshot # Undefined
    /\ Len(snapshot[1].holdings) = 1
    /\ snapshot[1].holdings[1].ticker = "BTC"
    /\ snapshot[1].prices["BTC"] = Some(50)
    /\ lastStablePricesRef["BTC"] = Some(50)
    /\ [cancelled |-> TRUE, published |-> FALSE] \in callbackLog
    /\ [cancelled |-> FALSE, published |-> TRUE] \in callbackLog

----------------------------------------------------------------------------
(* Specification of the managed-database calls, one at a time *)

NextManaged ==
    \/ createManagedDatabase(Labels, CopyFromIds) /\ UNCHANGED <<dbVars, pageVars, snapshotVars, cacheVars, dashVars>>
    \/ attachExistingDatabase(Labels, DexieNames) /\ UNCHANGED <<dbVars, pageVars, snapshotVars, cacheVars, dashVars>>
    \/ deleteManagedDatabase(DatabaseIds) /\ UNCHANGED <<dbVars, pageVars, snapshotVars, cacheVars, dashVars>>
    \/ selectManagedDatabase(DatabaseIds) /\ UNCHANGED <<dbVars, pageVars, snapshotVars, cacheVars, dashVars>>

SpecManaged == Init /\ [][NextManaged]_vars

\* C29: after any sequence of create, attach, delete and select calls, failed
\* ones included, the managed-database list has at least one entry and the
\* stored current id is the id of an entry of the list
C29_CurrentIsListed ==
    /\ Len(databaseList) >= 1
    /\ \E i \in 1..Len(databaseList) : databaseList[i].id = storedCurrentDatabaseId

\* the current database has just been deleted from a list of three: the
\* current id has moved to the first of the two entries left
C29_Witness ==
    /\ lastCall.op = "delete"
    /\ lastCall.error = ""
    /\ lastCall.current = "primary"
    /\ Len(databaseList) = 2
    /\ \A i \in 1..Len(databaseList) : databaseList[i].id # "primary"
    /\ storedCurrentDatabaseId = databaseList[1].id

\* C30: when createManagedDatabase throws because the label is blank or
\* because copyFromId names no managed database, the list is what it was
\* before the call
C30_FailedCreateLeavesList ==
    (/\ lastCall.op = "create"
     /\ lastCall.error \in {"Database name is required", "Database not found"})
        => databaseList = lastCall.before

====
